---- MODULE Spec2Model ----
(***************************************************************************)
(* Model of the cheddar activity reports: analyze_firebase_data.py         *)
(* (class FirebaseAnalyzer, "FA") and cheddar_activity_analyzer.py (class  *)
(* CheddarAnalyzer, "CA").  Both read per-user activity records from a     *)
(* document store, aggregate them per roster user and render a Markdown    *)
(* report and a spreadsheet.  cheddar_4week_weight.py ("W4") reads a       *)
(* sheet of members and extracts three lists of names from it.             *)
(*                                                                         *)
(* Text is a sequence of one-character strings, so that slicing, splitting *)
(* and number parsing are computed the way the Python code computes them.  *)
(* Korean labels of the source are written in romanised ASCII.             *)
(***************************************************************************)
EXTENDS Integers, Sequences, FiniteSets, TLC

VARIABLES
    prog,                 \* which script runs: "FA" or "CA"
    credential,           \* the credential file: "valid", "invalid", "missing"
    firebase,             \* firebase_admin and the _LazyFirebase class
    roster,               \* self.user_emails / cfg.emails (ordered)
    exclude,              \* self.notification_exclude_list / cfg.exclude
    start_date,           \* date(2025, 3, 31) in FA, cfg.start_date in CA
    store,                \* contents of the document store, per user
    clock,                \* the wall clock: [date]; the time of day is
                          \* chosen where the clock is read
    ticks,                \* number of midnights passed since the start
    pc,                   \* position of main() / run()
    idx,                  \* position of the roster loop of the aggregator
    step,                 \* position inside the loop body
    user_names,           \* user_names / names
    registration_dates,   \* user_registration_dates (FA only)
    cheddar_dates_by_user,\* cheddar_dates_by_user / matrices[CHEDDAR]
    meal_dates_by_user,   \* meal_dates_by_user / matrices[MEAL]
    weight_data_by_user,  \* weight_data_by_user / weights
    locals,               \* cheddar_dates, meal_dates of the loop body (FA)
    faulted,              \* store queries that failed, as the store saw them
    markdown,             \* the rendered Markdown report
    readme,               \* README.md on disk
    excel,                \* the spreadsheet on disk
    codec,                \* the date decoder applied to one identifier
    members               \* cheddar_4week_weight.py: the sheet that is read
                          \* and the locals of extract_member_lists

vars == <<prog, credential, firebase, roster, exclude, start_date, store,
          clock, ticks, pc, idx, step, user_names, registration_dates,
          cheddar_dates_by_user, meal_dates_by_user, weight_data_by_user,
          locals, faulted, markdown, readme, excel, codec, members>>

-----------------------------------------------------------------------------
(* Text helpers *)

Min(a, b) == IF a < b THEN a ELSE b
Max(a, b) == IF a > b THEN a ELSE b

DigitChars == <<"0", "1", "2", "3", "4", "5", "6", "7", "8", "9">>

IsDigit(c) == \E i \in 1..10 : DigitChars[i] = c

DigitVal(c) == (CHOOSE i \in 1..10 : DigitChars[i] = c) - 1

\* Python slice s[a:b] for 0 <= a <= b: indices are clamped to len(s).
PySlice(s, a, b) == SubSeq(s, a + 1, Min(b, Len(s)))

\* Python slice s[-n:]: the last n characters, or all of s when it is shorter.
PyTail(s, n) == SubSeq(s, Max(Len(s) - n, 0) + 1, Len(s))

\* str.strip() as int() applies it: leading and trailing blanks are dropped.
RECURSIVE LStrip(_)
LStrip(s) == IF s # <<>> /\ s[1] = " " THEN LStrip(Tail(s)) ELSE s

RECURSIVE RStrip(_)
RStrip(s) ==
    IF s # <<>> /\ s[Len(s)] = " " THEN RStrip(SubSeq(s, 1, Len(s) - 1)) ELSE s

\* Value of a run of digits in which single underscores may separate digits.
RECURSIVE DigitsValue(_, _)
DigitsValue(s, acc) ==
    IF s = <<>> THEN acc
    ELSE IF s[1] = "_" THEN DigitsValue(Tail(s), acc)
    ELSE DigitsValue(Tail(s), 10 * acc + DigitVal(s[1]))

\* The digit part int() accepts: digits, single underscores between digits.
IsIntBody(s) ==
    /\ s # <<>>
    /\ \A i \in 1..Len(s) : IsDigit(s[i]) \/ s[i] = "_"
    /\ IsDigit(s[1]) /\ IsDigit(s[Len(s)])
    /\ \A i \in 1..(Len(s) - 1) : ~(s[i] = "_" /\ s[i + 1] = "_")

\* Python int(text), base 10: blanks around, an optional sign, then the body.
\* ok = FALSE stands for ValueError.
PyInt(text) ==
    LET s    == RStrip(LStrip(text))
        sign == IF s # <<>> /\ s[1] \in {"+", "-"} THEN s[1] ELSE ""
        body == IF sign = "" THEN s ELSE Tail(s)
    IN  IF IsIntBody(body)
        THEN [ok |-> TRUE,
              val |-> IF sign = "-" THEN 0 - DigitsValue(body, 0)
                                    ELSE DigitsValue(body, 0)]
        ELSE [ok |-> FALSE, val |-> 0]

-----------------------------------------------------------------------------
(* Calendar dates: datetime.date *)

None == [kind |-> "None"]

MINYEAR == 1
MAXYEAR == 9999

IsLeap(y) == (y % 4 = 0) /\ ((y % 100 # 0) \/ (y % 400 = 0))

DaysInMonth(y, m) ==
    IF m = 2 THEN (IF IsLeap(y) THEN 29 ELSE 28)
    ELSE IF m \in {4, 6, 9, 11} THEN 30 ELSE 31

\* datetime.date(y, m, d): None stands for ValueError.
MakeDate(y, m, d) ==
    IF /\ MINYEAR <= y /\ y <= MAXYEAR
       /\ 1 <= m /\ m <= 12
       /\ 1 <= d /\ d <= DaysInMonth(y, m)
    THEN [year |-> y, month |-> m, day |-> d]
    ELSE None

\* date + timedelta(days=1)
AddDay(dt) ==
    IF dt.day < DaysInMonth(dt.year, dt.month)
    THEN [dt EXCEPT !.day = dt.day + 1]
    ELSE IF dt.month < 12
    THEN [year |-> dt.year, month |-> dt.month + 1, day |-> 1]
    ELSE [year |-> dt.year + 1, month |-> 1, day |-> 1]

\* date - timedelta(days=1)
SubDay(dt) ==
    IF dt.day > 1
    THEN [dt EXCEPT !.day = dt.day - 1]
    ELSE IF dt.month > 1
    THEN [year |-> dt.year, month |-> dt.month - 1,
          day |-> DaysInMonth(dt.year, dt.month - 1)]
    ELSE [year |-> dt.year - 1, month |-> 12, day |-> 31]

\* a < b and a <= b on dates
DateLT(a, b) ==
    \/ a.year < b.year
    \/ a.year = b.year /\ a.month < b.month
    \/ a.year = b.year /\ a.month = b.month /\ a.day < b.day

DateLE(a, b) == a = b \/ DateLT(a, b)

\* max(dates) of a non-empty set of dates
MaxDate(S) == CHOOSE d \in S : \A e \in S : DateLE(e, d)

-----------------------------------------------------------------------------
(* DateCodec *)

\* FirebaseAnalyzer.extract_date_from_document_id
ExtractDateFromDocumentId(doc_id) ==
    LET date_str == PyTail(doc_id, 8)
        year     == PyInt(PySlice(date_str, 0, 4))
        month    == PyInt(PySlice(date_str, 4, 6))
        day      == PyInt(PySlice(date_str, 6, 8))
    IN  IF year.ok /\ month.ok /\ day.ok
        THEN MakeDate(year.val, month.val, day.val)
        ELSE None

\* parse_digits of date.fromisoformat: exactly n ASCII digits, nothing else.
ParseDigits(s, n) ==
    IF Len(s) = n /\ \A i \in 1..n : IsDigit(s[i])
    THEN [ok |-> TRUE, val |-> DigitsValue(s, 0)]
    ELSE [ok |-> FALSE, val |-> 0]

\* datetime.date.fromisoformat(text); None stands for ValueError.  The
\* accepted lengths are 7, 8 and 10; the year is four digits, a dash after it
\* switches the separators on, then come two month digits, the separator
\* and two day digits (characters after the day are not looked at).  A W
\* after the year starts an ISO-week form, whose two week digits follow the
\* W directly: the text built by _extract_date has its second dash where
\* a week digit would be, so the week digits never parse for that caller
\* and the calendar arithmetic of a week form that does parse is left out.
FromIsoFormat(text) ==
    IF Len(text) \notin {7, 8, 10} THEN None
    ELSE
      LET year    == ParseDigits(PySlice(text, 0, 4), 4)
          has_sep == text[5] = "-"
          pos     == IF has_sep THEN 5 ELSE 4
      IN  IF ~year.ok THEN None
          ELSE IF PySlice(text, pos, pos + 1) = <<"W">>
          THEN None
          ELSE
            LET month == ParseDigits(PySlice(text, pos, pos + 2), 2)
                sep2  == PySlice(text, pos + 2, pos + 3) = <<"-">>
                dpos  == IF has_sep THEN pos + 3 ELSE pos + 2
                day   == ParseDigits(PySlice(text, dpos, dpos + 2), 2)
            IN  IF month.ok /\ (has_sep => sep2) /\ day.ok
                THEN MakeDate(year.val, month.val, day.val)
                ELSE None

\* CheddarAnalyzer._extract_date
ExtractDate(doc_id) ==
    LET tail == PyTail(doc_id, 8)
    IN  FromIsoFormat(PySlice(tail, 0, 4) \o <<"-">> \o PySlice(tail, 4, 6)
                      \o <<"-">> \o PySlice(tail, 6, 8))

-----------------------------------------------------------------------------
(* Python values of record fields.  Numbers are kept in hundredths, so     *)
(* 63.5 is n = 6350; the samples used are exactly representable floats.    *)

IntVal(k)   == [t |-> "int", n |-> 100 * k]
FloatVal(h) == [t |-> "float", n |-> h]
StrVal      == [t |-> "str", n |-> 0]
BoolVal(b)  == [t |-> "bool", n |-> IF b THEN 100 ELSE 0]

\* isinstance(v, (int, float)); bool is a subclass of int.
IsInstanceIntFloat(v) == v.t \in {"int", "float", "bool"}

\* float(v)
PyFloat(v) == [t |-> "float", n |-> v.n]

\* truth value of an optional number: None and zero are false
Truthy(v) == v # None /\ v.n # 0

\* the empty dict, and d.get(k) of a dict
EmptyDict == <<>>
DictGet(d, k) == IF k \in DOMAIN d THEN d[k] ELSE None

\* d[k] = v
DictSet(d, k, v) == (k :> v) @@ d

\* email.split('@')[0]
RECURSIVE LocalPart(_)
LocalPart(email) ==
    IF email = <<>> \/ email[1] = "@" THEN <<>>
    ELSE <<email[1]>> \o LocalPart(Tail(email))

-----------------------------------------------------------------------------
(* The store as the client sees it.  A stream of a sub-collection yields   *)
(* its records in order and may raise after any number of them; fail_at is *)
(* that number, NoFail when the stream ends normally.                      *)

NoFail == -1

DocsRead(docs, fail_at) ==
    IF fail_at = NoFail THEN docs ELSE SubSeq(docs, 1, fail_at)

Returned(v) == [raised |-> FALSE, value |-> v]
Raised      == [raised |-> TRUE, value |-> None]

\* FirebaseAnalyzer.get_user_name
GetUserName(email, doc, fails) ==
    IF fails THEN LocalPart(email)
    ELSE IF doc.exists /\ "name" \in DOMAIN doc.fields
    THEN doc.fields["name"]
    ELSE LocalPart(email)

\* FirebaseAnalyzer.get_user_registration_date
GetUserRegistrationDate(doc, fails) ==
    IF fails THEN None
    ELSE IF doc.exists /\ doc.create_time # None THEN doc.create_time
    ELSE None

\* the for loop of get_cheddar_conversation_dates / get_meal_tracking_dates
RECURSIVE AddExtractedDates(_, _)
AddExtractedDates(docs, dates) ==
    IF docs = <<>> THEN dates
    ELSE LET date == ExtractDateFromDocumentId(docs[1].id)
         IN  AddExtractedDates(Tail(docs),
                               IF date # None THEN dates \cup {date}
                                              ELSE dates)

\* FirebaseAnalyzer.get_cheddar_conversation_dates: the set built so far is
\* returned also when the stream raised.
GetCheddarConversationDates(docs, fail_at) ==
    AddExtractedDates(DocsRead(docs, fail_at), {})

\* FirebaseAnalyzer.get_meal_tracking_dates
GetMealTrackingDates(docs, fail_at) ==
    AddExtractedDates(DocsRead(docs, fail_at), {})

\* get_weight_data with a weight of zero let through (>= for >)
RECURSIVE AddWeightDataZeroKept(_, _)
AddWeightDataZeroKept(docs, weight_data) ==
    IF docs = <<>> THEN weight_data
    ELSE LET doc  == docs[1]
             date == ExtractDateFromDocumentId(doc.id)
         IN  AddWeightDataZeroKept(Tail(docs),
               IF /\ date # None
                  /\ "weight" \in DOMAIN doc.fields
                  /\ IsInstanceIntFloat(doc.fields["weight"])
                  /\ doc.fields["weight"].n >= 0
               THEN DictSet(weight_data, date, PyFloat(doc.fields["weight"]))
               ELSE weight_data)

\* the for loop of get_weight_data
RECURSIVE AddWeightData(_, _)
AddWeightData(docs, weight_data) ==
    IF docs = <<>> THEN weight_data
    ELSE LET doc  == docs[1]
             date == ExtractDateFromDocumentId(doc.id)
         IN  AddWeightData(Tail(docs),
               IF /\ date # None
                  /\ "weight" \in DOMAIN doc.fields
                  /\ IsInstanceIntFloat(doc.fields["weight"])
                  /\ doc.fields["weight"].n > 0
               THEN DictSet(weight_data, date, PyFloat(doc.fields["weight"]))
               ELSE weight_data)

\* FirebaseAnalyzer.get_weight_data
GetWeightData(docs, fail_at) ==
    AddWeightData(DocsRead(docs, fail_at), EmptyDict)

\* CheddarAnalyzer._lookup_patient_name: a failing get() is not caught.
LookupPatientName(email, doc, fails) ==
    IF fails THEN Raised
    ELSE IF /\ doc.exists
            /\ doc.fields # EmptyDict
            /\ "name" \in DOMAIN doc.fields
    THEN Returned(doc.fields["name"])
    ELSE Returned(LocalPart(email))

\* the for loop of _fetch_dates
RECURSIVE AddDates(_, _)
AddDates(docs, dates) ==
    IF docs = <<>> THEN dates
    ELSE LET d == ExtractDate(docs[1].id)
         IN  AddDates(Tail(docs), IF d # None THEN dates \cup {d} ELSE dates)

\* CheddarAnalyzer._fetch_dates: a failing stream is not caught.
FetchDates(docs, fail_at) ==
    IF fail_at # NoFail THEN Raised ELSE Returned(AddDates(docs, {}))

\* the for loop of _fetch_weights
RECURSIVE AddWeights(_, _)
AddWeights(docs, results) ==
    IF docs = <<>> THEN results
    ELSE LET d == ExtractDate(docs[1].id)
             w == DictGet(docs[1].fields, "weight")
         IN  AddWeights(Tail(docs),
               IF d # None /\ w # None /\ IsInstanceIntFloat(w) /\ w.n > 0
               THEN DictSet(results, d, PyFloat(w))
               ELSE results)

\* CheddarAnalyzer._fetch_weights
FetchWeights(docs, fail_at) ==
    IF fail_at # NoFail THEN Raised ELSE Returned(AddWeights(docs, EmptyDict))

-----------------------------------------------------------------------------
(* Bounds and sample inputs *)

MaxFaults == 1    \* store queries that may fail in one run
MaxTicks  == 1    \* midnights that may pass during one run
MaxDocs   == 2    \* records of one sub-collection in the fetch specification

StartDate == [year |-> 2025, month |-> 3, day |-> 31]
FirstDay  == [year |-> 2025, month |-> 4, day |-> 1]

alice == <<"a", "l", "@", "x">>
bob   == <<"b", "o", "b">>
carol == <<"c", "@", "d", "@", "e">>

Rosters == {<<alice, bob, carol>>}

ExcludeLists == {<<>>, <<bob>>, <<carol, alice>>}

Emails(r) == {r[i] : i \in 1..Len(r)}

\* record identifiers: a kind prefix and a date tail, and malformed ones
Id0331  == <<"c", "2", "0", "2", "5", "0", "3", "3", "1">>
Id0401  == <<"c", "2", "0", "2", "5", "0", "4", "0", "1">>
Id0402  == <<"2", "0", "2", "5", "0", "4", "0", "2">>
IdWord  == <<"s", "u", "m", "m", "a", "r", "y">>
IdShort == <<"2", "0", "2", "5", "0", "4", "1">>

Doc(id) == [id |-> id, fields |-> EmptyDict]
WDoc(id, w) == [id |-> id, fields |-> ("weight" :> w)]

NameAL  == <<"A", "L">>

Patient(name, created) ==
    [exists |-> TRUE, fields |-> ("name" :> name), create_time |-> created]
Nameless(created) ==
    [exists |-> TRUE, fields |-> EmptyDict, create_time |-> created]
Missing == [exists |-> FALSE, fields |-> EmptyDict, create_time |-> None]

UserData(p, c, m, w) ==
    [patient |-> p, cheddar |-> c, meal_tracking |-> m,
     chat_ignore_weekly_data |-> w]

Profiles ==
    { UserData(Patient(NameAL, SubDay(StartDate)),
               <<Doc(Id0401), Doc(IdWord)>>,
               <<Doc(Id0401), Doc(Id0331)>>,
               <<WDoc(Id0401, FloatVal(6350)), WDoc(Id0402, IntVal(0))>>),
      UserData(Nameless(StartDate),
               <<Doc(Id0402)>>,
               <<Doc(IdShort)>>,
               <<WDoc(Id0331, IntVal(70)), WDoc(Id0331, StrVal)>>),
      UserData(Missing,
               <<>>,
               <<Doc(Id0402), Doc(Id0331)>>,
               <<WDoc(Id0402, IntVal(0 - 5)), WDoc(IdWord, FloatVal(6025)),
                 Doc(Id0402)>>) }

\* the stores of a roster: every user has the same profile, or no two users
\* have the same one
Stores(r) ==
    {st \in [Emails(r) -> Profiles] :
        Cardinality({st[u] : u \in Emails(r)}) # 2}

-----------------------------------------------------------------------------
(* Startup: the credential file, firebase_admin and _LazyFirebase *)

\* the credential file on disk: a service account key, a file that is not
\* one, or no file
Credentials == {"valid", "invalid", "missing"}

\* os.path.exists(credential_path), cfg.firebase_credential.exists()
Exists(path) == path # "missing"

\* credentials.Certificate(path) raises unless the file is a service
\* account key
CertificateRaises(path) == path # "valid"

\* the module after its imports: firebase_admin is None when the SDK is
\* absent, _LazyFirebase._instance is None, no construction was attempted
FirebaseAtImport(sdk) == [sdk |-> sdk, instance |-> None, calls |-> <<>>]

\* an instance of _LazyFirebase, with or without the attribute _db
LazyInstance(has_db) == [kind |-> "_LazyFirebase", has_db |-> has_db]

\* _LazyFirebase.__new__(cls, credential_path): the class after the call,
\* with the call and its outcome appended to calls
LazyFirebaseNew(fb, credential_path) ==
    LET Call(raised, value) ==
          [credential_path |-> credential_path, raised |-> raised,
           value |-> value]
    IN  IF fb.instance = None
        THEN IF ~fb.sdk \/ CertificateRaises(credential_path)
             THEN [fb EXCEPT !.instance = LazyInstance(FALSE),
                             !.calls = Append(@, Call(TRUE, None))]
             ELSE [fb EXCEPT !.instance = LazyInstance(TRUE),
                             !.calls = Append(@, Call(FALSE,
                                                      LazyInstance(TRUE)))]
        ELSE [fb EXCEPT !.calls = Append(@, Call(FALSE, fb.instance))]

\* the outcome of the last call of _LazyFirebase(...)
LastCall(fb) == fb.calls[Len(fb.calls)]

\* the property db of an instance: self._db, AttributeError without it
DbRaises(instance) == ~instance.has_db

-----------------------------------------------------------------------------
(* State *)

NoMarkdown == [kind |-> "none"]
NoFile     == [kind |-> "absent"]
NoLocals   == [cheddar_dates |-> {}, meal_dates |-> {}]
IdleCodec  == [phase |-> "idle", doc_id |-> <<>>, fa |-> None, ca |-> None]
NoMembers  == [phase |-> "idle"]

InitRun ==
    /\ firebase = FirebaseAtImport(TRUE)
    /\ ticks = 0
    /\ pc = "start"
    /\ idx = 1
    /\ step = "name"
    /\ user_names = EmptyDict
    /\ registration_dates = EmptyDict
    /\ cheddar_dates_by_user = EmptyDict
    /\ meal_dates_by_user = EmptyDict
    /\ weight_data_by_user = EmptyDict
    /\ locals = NoLocals
    /\ faulted = {}
    /\ markdown = NoMarkdown
    /\ readme = NoFile
    /\ excel = NoFile
    /\ codec = IdleCodec
    /\ members = NoMembers

Init ==
    /\ prog \in {"FA", "CA"}
    /\ credential \in Credentials
    /\ roster \in Rosters
    /\ exclude \in ExcludeLists
    /\ start_date = StartDate
    /\ store \in Stores(roster)
    /\ clock = [date |-> FirstDay]
    /\ InitRun

-----------------------------------------------------------------------------
(* main() up to the aggregation *)

\* main of analyze_firebase_data.py: the test of the credential file, then
\* FirebaseAnalyzer(credential_path)
MainFirebaseAnalyzer ==
    /\ prog = "FA"
    /\ pc = "start"
    /\ pc' = IF ~Exists(credential) THEN "returned"
             ELSE IF CertificateRaises(credential) THEN "crashed"
             ELSE "collect"
    /\ UNCHANGED <<prog, members, credential, firebase, roster, exclude,
                   start_date, store, clock, ticks, idx, step, user_names,
                   registration_dates, cheddar_dates_by_user,
                   meal_dates_by_user, weight_data_by_user, locals, faulted,
                   markdown, readme, excel, codec>>

\* main of cheddar_activity_analyzer.py: the test of the credential file,
\* then CheddarAnalyzer(cfg), whose __init__ builds _LazyFirebase and reads
\* its db
MainCheddarAnalyzer ==
    /\ prog = "CA"
    /\ pc = "start"
    /\ IF ~Exists(credential)
       THEN /\ pc' = "crashed"
            /\ UNCHANGED firebase
       ELSE LET fb == LazyFirebaseNew(firebase, credential) IN
            /\ firebase' = fb
            /\ pc' = IF LastCall(fb).raised \/ DbRaises(LastCall(fb).value)
                     THEN "crashed" ELSE "collect"
    /\ UNCHANGED <<prog, members, credential, roster, exclude, start_date,
                   store, clock, ticks, idx, step, user_names,
                   registration_dates, cheddar_dates_by_user,
                   meal_dates_by_user, weight_data_by_user, locals, faulted,
                   markdown, readme, excel, codec>>

\* the exit status of the process: 0 when main returns, 1 when an
\* exception leaves it, Running before that
Running == 0 - 1
ExitStatus ==
    IF pc \in {"done", "returned"} THEN 0
    ELSE IF pc = "crashed" THEN 1
    ELSE Running

-----------------------------------------------------------------------------
(* The aggregator: analyze_all_users (FA), _collect_all_users (CA) *)

CanFail == Cardinality(faulted) < MaxFaults

Fault(email, op, at) == [user |-> email, op |-> op, at |-> at]

InLoop(p, s) == prog = p /\ pc = "collect" /\ idx <= Len(roster) /\ step = s

FailPoints(docs) == {NoFail} \cup (IF CanFail THEN 0..Len(docs) ELSE {})

\* analyze_all_users: user_names[email] = self.get_user_name(email)
AnalyzeUserName ==
    /\ InLoop("FA", "name")
    /\ \E fails \in {FALSE} \cup (IF CanFail THEN {TRUE} ELSE {}) :
         LET email == roster[idx] IN
         /\ user_names' = DictSet(user_names, email,
                            GetUserName(email, store[email].patient, fails))
         /\ faulted' = IF fails THEN faulted \cup {Fault(email, "name", 0)}
                                ELSE faulted
    /\ step' = "reg"
    /\ UNCHANGED <<prog, members, credential, firebase, roster, exclude,
                   start_date, store, clock, ticks, pc, idx,
                   registration_dates, cheddar_dates_by_user,
                   meal_dates_by_user, weight_data_by_user, locals, markdown,
                   readme, excel, codec>>

\* analyze_all_users: user_registration_dates[email] = ...
AnalyzeUserRegistration ==
    /\ InLoop("FA", "reg")
    /\ \E fails \in {FALSE} \cup (IF CanFail THEN {TRUE} ELSE {}) :
         LET email == roster[idx] IN
         /\ registration_dates' = DictSet(registration_dates, email,
                    GetUserRegistrationDate(store[email].patient, fails))
         /\ faulted' = IF fails THEN faulted \cup {Fault(email, "reg", 0)}
                                ELSE faulted
    /\ step' = "cheddar"
    /\ UNCHANGED <<prog, members, credential, firebase, roster, exclude,
                   start_date, store, clock, ticks, pc, idx, user_names,
                   cheddar_dates_by_user, meal_dates_by_user,
                   weight_data_by_user, locals, markdown, readme, excel,
                   codec>>

\* analyze_all_users: cheddar_dates = self.get_cheddar_conversation_dates(email)
AnalyzeUserCheddar ==
    /\ InLoop("FA", "cheddar")
    /\ LET email == roster[idx]
           docs  == store[email].cheddar
       IN  \E fail_at \in FailPoints(docs) :
             /\ locals' = [locals EXCEPT !.cheddar_dates =
                              GetCheddarConversationDates(docs, fail_at)]
             /\ faulted' = IF fail_at # NoFail
                           THEN faulted \cup {Fault(email, "cheddar", fail_at)}
                           ELSE faulted
    /\ step' = "meal"
    /\ UNCHANGED <<prog, members, credential, firebase, roster, exclude,
                   start_date, store, clock, ticks, pc, idx, user_names,
                   registration_dates, cheddar_dates_by_user,
                   meal_dates_by_user, weight_data_by_user, markdown, readme,
                   excel, codec>>

\* analyze_all_users: meal_dates = self.get_meal_tracking_dates(email)
AnalyzeUserMeal ==
    /\ InLoop("FA", "meal")
    /\ LET email == roster[idx]
           docs  == store[email].meal_tracking
       IN  \E fail_at \in FailPoints(docs) :
             /\ locals' = [locals EXCEPT !.meal_dates =
                              GetMealTrackingDates(docs, fail_at)]
             /\ faulted' = IF fail_at # NoFail
                           THEN faulted \cup {Fault(email, "meal", fail_at)}
                           ELSE faulted
    /\ step' = "weight"
    /\ UNCHANGED <<prog, members, credential, firebase, roster, exclude,
                   start_date, store, clock, ticks, pc, idx, user_names,
                   registration_dates, cheddar_dates_by_user,
                   meal_dates_by_user, weight_data_by_user, markdown, readme,
                   excel, codec>>

\* analyze_all_users: weight_data = self.get_weight_data(email), then the
\* three assignments that end the loop body
AnalyzeUserWeight ==
    /\ InLoop("FA", "weight")
    /\ LET email == roster[idx]
           docs  == store[email].chat_ignore_weekly_data
       IN  \E fail_at \in FailPoints(docs) :
             /\ cheddar_dates_by_user' =
                    DictSet(cheddar_dates_by_user, email, locals.cheddar_dates)
             /\ meal_dates_by_user' =
                    DictSet(meal_dates_by_user, email, locals.meal_dates)
             /\ weight_data_by_user' =
                    DictSet(weight_data_by_user, email,
                            GetWeightData(docs, fail_at))
             /\ faulted' = IF fail_at # NoFail
                           THEN faulted \cup {Fault(email, "weight", fail_at)}
                           ELSE faulted
    /\ locals' = NoLocals
    /\ idx' = idx + 1
    /\ step' = "name"
    /\ UNCHANGED <<prog, members, credential, firebase, roster, exclude,
                   start_date, store, clock, ticks, pc, user_names,
                   registration_dates, markdown, readme, excel, codec>>

\* _collect_all_users: names[email] = self._lookup_patient_name(email)
CollectName ==
    /\ InLoop("CA", "name")
    /\ \E fails \in {FALSE} \cup (IF CanFail THEN {TRUE} ELSE {}) :
         LET email == roster[idx]
             r     == LookupPatientName(email, store[email].patient, fails)
         IN  /\ user_names' = IF r.raised THEN user_names
                              ELSE DictSet(user_names, email, r.value)
             /\ pc' = IF r.raised THEN "crashed" ELSE pc
             /\ step' = IF r.raised THEN step ELSE "cheddar"
             /\ faulted' = IF fails THEN faulted \cup {Fault(email, "name", 0)}
                                    ELSE faulted
    /\ UNCHANGED <<prog, members, credential, firebase, roster, exclude,
                   start_date, store, clock, ticks, idx, registration_dates,
                   cheddar_dates_by_user, meal_dates_by_user,
                   weight_data_by_user, locals, markdown, readme, excel,
                   codec>>

\* _collect_all_users: matrices[CHEDDAR][email] = self._fetch_dates(email, "cheddar")
CollectCheddar ==
    /\ InLoop("CA", "cheddar")
    /\ LET email == roster[idx]
           docs  == store[email].cheddar
       IN  \E fail_at \in FailPoints(docs) :
             LET r == FetchDates(docs, fail_at) IN
             /\ cheddar_dates_by_user' =
                    IF r.raised THEN cheddar_dates_by_user
                    ELSE DictSet(cheddar_dates_by_user, email, r.value)
             /\ pc' = IF r.raised THEN "crashed" ELSE pc
             /\ step' = IF r.raised THEN step ELSE "meal"
             /\ faulted' = IF fail_at # NoFail
                           THEN faulted \cup {Fault(email, "cheddar", fail_at)}
                           ELSE faulted
    /\ UNCHANGED <<prog, members, credential, firebase, roster, exclude,
                   start_date, store, clock, ticks, idx, user_names,
                   registration_dates, meal_dates_by_user,
                   weight_data_by_user, locals, markdown, readme, excel,
                   codec>>

\* _collect_all_users: matrices[MEAL][email] = self._fetch_dates(email, "meal_tracking")
CollectMeal ==
    /\ InLoop("CA", "meal")
    /\ LET email == roster[idx]
           docs  == store[email].meal_tracking
       IN  \E fail_at \in FailPoints(docs) :
             LET r == FetchDates(docs, fail_at) IN
             /\ meal_dates_by_user' =
                    IF r.raised THEN meal_dates_by_user
                    ELSE DictSet(meal_dates_by_user, email, r.value)
             /\ pc' = IF r.raised THEN "crashed" ELSE pc
             /\ step' = IF r.raised THEN step ELSE "weight"
             /\ faulted' = IF fail_at # NoFail
                           THEN faulted \cup {Fault(email, "meal", fail_at)}
                           ELSE faulted
    /\ UNCHANGED <<prog, members, credential, firebase, roster, exclude,
                   start_date, store, clock, ticks, idx, user_names,
                   registration_dates, cheddar_dates_by_user,
                   weight_data_by_user, locals, markdown, readme, excel,
                   codec>>

\* _collect_all_users: weights[email] = self._fetch_weights(email)
CollectWeights ==
    /\ InLoop("CA", "weight")
    /\ LET email == roster[idx]
           docs  == store[email].chat_ignore_weekly_data
       IN  \E fail_at \in FailPoints(docs) :
             LET r == FetchWeights(docs, fail_at) IN
             /\ weight_data_by_user' =
                    IF r.raised THEN weight_data_by_user
                    ELSE DictSet(weight_data_by_user, email, r.value)
             /\ pc' = IF r.raised THEN "crashed" ELSE pc
             /\ step' = IF r.raised THEN step ELSE "name"
             /\ idx' = IF r.raised THEN idx ELSE idx + 1
             /\ faulted' = IF fail_at # NoFail
                           THEN faulted \cup {Fault(email, "weight", fail_at)}
                           ELSE faulted
    /\ UNCHANGED <<prog, members, credential, firebase, roster, exclude,
                   start_date, store, clock, ticks, user_names,
                   registration_dates, cheddar_dates_by_user,
                   meal_dates_by_user, locals, markdown, readme, excel,
                   codec>>

-----------------------------------------------------------------------------
(* Formatting *)

\* str(n) of a natural number
RECURSIVE IntText(_)
IntText(n) ==
    IF n < 10 THEN <<DigitChars[n + 1]>>
    ELSE IntText(n \div 10) \o <<DigitChars[(n % 10) + 1]>>

\* n printed with at least w digits, zero padded
RECURSIVE ZeroPad(_, _)
ZeroPad(t, w) == IF Len(t) >= w THEN t ELSE ZeroPad(<<"0">> \o t, w)

\* date.isoformat(), str(date)
IsoFormat(d) ==
    ZeroPad(IntText(d.year), 4) \o <<"-">> \o ZeroPad(IntText(d.month), 2)
    \o <<"-">> \o ZeroPad(IntText(d.day), 2)

\* date.strftime('%Y-%m-%d'): the C library prints the year without padding
StrfTime(d) ==
    IntText(d.year) \o <<"-">> \o ZeroPad(IntText(d.month), 2)
    \o <<"-">> \o ZeroPad(IntText(d.day), 2)

\* the times of day at which datetime.now() is read
TimesOfDay ==
    { [hour |-> 9, minute |-> 5, second |-> 0],
      [hour |-> 23, minute |-> 59, second |-> 59] }

\* datetime.strftime('%Y-%m-%d %H:%M:%S')
StrfDateTime(now) ==
    StrfTime(now.date) \o <<" ">> \o ZeroPad(IntText(now.tod.hour), 2)
    \o <<":">> \o ZeroPad(IntText(now.tod.minute), 2)
    \o <<":">> \o ZeroPad(IntText(now.tod.second), 2)

\* f"{w:.1f}" of a non-negative number kept in hundredths: rounded to the
\* nearest tenth, an exact half to the even tenth
FormatOneDecimal(w) ==
    LET q      == w.n \div 10
        r      == w.n % 10
        tenths == IF r > 5 \/ (r = 5 /\ q % 2 = 1) THEN q + 1 ELSE q
    IN  IntText(tenths \div 10) \o <<".">> \o IntText(tenths % 10)

\* f"{x}" of an optional date
PyStr(x) == IF x = None THEN <<"None">> ELSE IsoFormat(x)

\* d.get(k, default)
DictGetDefault(d, k, default) == IF k \in DOMAIN d THEN d[k] ELSE default

\* ', '.join(texts)
RECURSIVE JoinComma(_)
JoinComma(texts) ==
    IF texts = <<>> THEN <<>>
    ELSE IF Len(texts) = 1 THEN texts[1]
    ELSE texts[1] \o <<", ">> \o JoinComma(Tail(texts))

\* the while loop with the test current_date < end_date
RECURSIVE AllDatesExclusive(_, _)
AllDatesExclusive(current_date, end_date) ==
    IF DateLT(current_date, end_date)
    THEN <<current_date>> \o AllDatesExclusive(AddDay(current_date), end_date)
    ELSE <<>>

\* the while loop that lists start_date .. end_date, one day at a time
RECURSIVE AllDates(_, _)
AllDates(current_date, end_date) ==
    IF DateLE(current_date, end_date)
    THEN <<current_date>> \o AllDates(AddDay(current_date), end_date)
    ELSE <<>>

\* list.insert of one date into an ascending list
RECURSIVE InsertDate(_, _)
InsertDate(d, sorted) ==
    IF sorted = <<>> THEN <<d>>
    ELSE IF DateLE(d, sorted[1]) THEN <<d>> \o sorted
    ELSE <<sorted[1]>> \o InsertDate(d, Tail(sorted))

\* sorted(dates) of a list
RECURSIVE Sorted(_)
Sorted(dates) ==
    IF dates = <<>> THEN <<>> ELSE InsertDate(dates[1], Sorted(Tail(dates)))

\* sorted(keys) of a set of dates
RECURSIVE SortedSet(_)
SortedSet(S) ==
    IF S = {} THEN <<>>
    ELSE LET d == MaxDate(S) IN SortedSet(S \ {d}) \o <<d>>

Reverse(q) == [i \in 1..Len(q) |-> q[Len(q) + 1 - i]]

\* labels of the source, romanised
EOPSEUM        == <<"eopseum">>
LabelCheddar   == <<"cheda daehwa">>
LabelMeal      == <<"sikdan girok">>
NoToday        == <<"oneul sayong girogi eopsseumnida">>
NoYesterday    == <<"eoje sayong girogi eopsseumnida">>
NoTwoDaysAgo   == <<"2il jeon sayong girogi eopsseumnida">>
NoNotification == <<"eoje sikdan girogeul haji aneun hwanjaga eopsseumnida">>
NoDropout      == <<"tallak hwanjaga eopsseumnida">>
NoWeightUsers  == <<"chejung girogi inneun sayongjaga eopsseumnida">>
Dash           == <<"-">>

-----------------------------------------------------------------------------
(* FirebaseAnalyzer.generate_markdown_table *)

\* the grid cell with the spreadsheet's tie-break (elif for the second if)
GridCellElif(email, date, cheddar, meal, weights) ==
    LET c      == IF date \in DictGetDefault(cheddar, email, {})
                  THEN <<"C">> ELSE <<>>
        m      == IF c = <<>> /\ date \in DictGetDefault(meal, email, {})
                  THEN <<"M">> ELSE <<>>
        weight == DictGet(DictGetDefault(weights, email, EmptyDict), date)
    IN  c \o m \o (IF Truthy(weight)
                   THEN <<" ", "(">> \o FormatOneDecimal(weight) \o <<"kg)">>
                   ELSE <<>>)

\* one cell of the grid
GridCell(email, date, cheddar, meal, weights) ==
    LET c      == IF date \in DictGetDefault(cheddar, email, {})
                  THEN <<"C">> ELSE <<>>
        m      == IF date \in DictGetDefault(meal, email, {})
                  THEN <<"M">> ELSE <<>>
        weight == DictGet(DictGetDefault(weights, email, EmptyDict), date)
    IN  c \o m \o (IF Truthy(weight)
                   THEN <<" ", "(">> \o FormatOneDecimal(weight) \o <<"kg)">>
                   ELSE <<>>)

\* one row of the grid
GridRow(email, sorted_dates, cheddar, meal, weights, names, regs) ==
    LET email_display == LocalPart(email)
        name_display  == DictGetDefault(names, email, email_display)
        registration_display == DictGetDefault(regs, email, EOPSEUM)
    IN  [name         |-> name_display,
         email        |-> email_display,
         registration |-> IF email \in DOMAIN regs
                          THEN PyStr(registration_display)
                          ELSE registration_display,
         cells        |-> [i \in 1..Len(sorted_dates) |->
                             GridCell(email, sorted_dates[i], cheddar, meal,
                                      weights)],
         name_end     |-> name_display]

\* the weight history sections with the dates of each user ascending
RECURSIVE WeightSectionsAscending(_, _, _)
WeightSectionsAscending(emails, weights, names) ==
    IF emails = <<>> THEN <<>>
    ELSE
      LET email       == emails[1]
          weight_data == DictGetDefault(weights, email, EmptyDict)
          sorted_weight_dates == SortedSet(DOMAIN weight_data)
          section ==
            [name |-> DictGetDefault(names, email, LocalPart(email)),
             rows |-> [i \in 1..Len(sorted_weight_dates) |->
                        <<StrfTime(sorted_weight_dates[i]),
                          FormatOneDecimal(
                              weight_data[sorted_weight_dates[i]])>>]]
      IN  (IF weight_data # EmptyDict THEN <<section>> ELSE <<>>)
          \o WeightSectionsAscending(Tail(emails), weights, names)

\* the weight history sections, one per roster user with weight data
RECURSIVE WeightSections(_, _, _)
WeightSections(emails, weights, names) ==
    IF emails = <<>> THEN <<>>
    ELSE
      LET email       == emails[1]
          weight_data == DictGetDefault(weights, email, EmptyDict)
          sorted_weight_dates == Reverse(SortedSet(DOMAIN weight_data))
          section ==
            [name |-> DictGetDefault(names, email, LocalPart(email)),
             rows |-> [i \in 1..Len(sorted_weight_dates) |->
                        <<StrfTime(sorted_weight_dates[i]),
                          FormatOneDecimal(
                              weight_data[sorted_weight_dates[i]])>>]]
      IN  (IF weight_data # EmptyDict THEN <<section>> ELSE <<>>)
          \o WeightSections(Tail(emails), weights, names)

\* the recent-activity rows with the meal records looked up one day late
RECURSIVE ActivityRowsMealShifted(_, _, _, _, _)
ActivityRowsMealShifted(emails, day, cheddar, meal, names) ==
    IF emails = <<>> THEN <<>>
    ELSE
      LET email        == emails[1]
          name_display == DictGetDefault(names, email, LocalPart(email))
          activities   ==
            (IF day \in DictGetDefault(cheddar, email, {})
             THEN <<LabelCheddar>> ELSE <<>>)
            \o (IF AddDay(day) \in DictGetDefault(meal, email, {})
                THEN <<LabelMeal>> ELSE <<>>)
      IN  (IF activities # <<>>
           THEN <<<<name_display, JoinComma(activities)>>>> ELSE <<>>)
          \o ActivityRowsMealShifted(Tail(emails), day, cheddar, meal, names)

\* the rows of one recent-activity table, without the placeholder
RECURSIVE ActivityRows(_, _, _, _, _)
ActivityRows(emails, day, cheddar, meal, names) ==
    IF emails = <<>> THEN <<>>
    ELSE
      LET email        == emails[1]
          name_display == DictGetDefault(names, email, LocalPart(email))
          activities   ==
            (IF day \in DictGetDefault(cheddar, email, {})
             THEN <<LabelCheddar>> ELSE <<>>)
            \o (IF day \in DictGetDefault(meal, email, {})
                THEN <<LabelMeal>> ELSE <<>>)
      IN  (IF activities # <<>>
           THEN <<<<name_display, JoinComma(activities)>>>> ELSE <<>>)
          \o ActivityRows(Tail(emails), day, cheddar, meal, names)

\* one recent-activity table: the rows, or the placeholder row
ActivityTable(emails, day, cheddar, meal, names, placeholder) ==
    LET rows == ActivityRows(emails, day, cheddar, meal, names)
    IN  IF rows # <<>> THEN rows ELSE <<<<Dash, placeholder>>>>

\* one row of the per-user most recent records
LatestRow(email, cheddar, meal, weights, names) ==
    LET cheddar_dates == DictGetDefault(cheddar, email, {})
        meal_dates    == DictGetDefault(meal, email, {})
        weight_data   == DictGetDefault(weights, email, EmptyDict)
        weight_dates  == DOMAIN weight_data
        latest_weight_date ==
            IF weight_dates # {} THEN MaxDate(weight_dates) ELSE None
        latest_weight ==
            IF latest_weight_date # None
            THEN DictGet(weight_data, latest_weight_date) ELSE None
    IN  <<DictGetDefault(names, email, LocalPart(email)),
          IF cheddar_dates # {} THEN StrfTime(MaxDate(cheddar_dates))
                                ELSE EOPSEUM,
          IF meal_dates # {} THEN StrfTime(MaxDate(meal_dates)) ELSE EOPSEUM,
          IF latest_weight_date # None /\ Truthy(latest_weight)
          THEN StrfTime(latest_weight_date) \o <<" ", "(">>
               \o FormatOneDecimal(latest_weight) \o <<"kg)">>
          ELSE EOPSEUM>>

\* registration_dates.get(email, "eopseum"), formatted when it is a date
RegistrationDisplay(email, regs) ==
    LET registration_display == DictGetDefault(regs, email, EOPSEUM)
    IN  IF email \notin DOMAIN regs THEN registration_display
        ELSE IF registration_display # None
        THEN StrfTime(registration_display)
        ELSE PyStr(registration_display)

\* patients_for_notification without the test of the exclusion list
RECURSIVE NotificationRowsNoExclusion(_, _, _, _, _, _)
NotificationRowsNoExclusion(emails, excluded, yesterday, meal, names, regs) ==
    IF emails = <<>> THEN <<>>
    ELSE
      LET email      == emails[1]
          meal_dates == DictGetDefault(meal, email, {})
          rest       == NotificationRowsNoExclusion(Tail(emails), excluded,
                                                    yesterday, meal, names,
                                                    regs)
      IN  IF yesterday \notin meal_dates
          THEN <<<<DictGetDefault(names, email, LocalPart(email)),
                   LocalPart(email),
                   RegistrationDisplay(email, regs),
                   IF meal_dates # {} THEN StrfTime(MaxDate(meal_dates))
                                      ELSE EOPSEUM>>>> \o rest
          ELSE rest

\* patients_for_notification, as the rows printed from it
RECURSIVE NotificationRows(_, _, _, _, _, _)
NotificationRows(emails, excluded, yesterday, meal, names, regs) ==
    IF emails = <<>> THEN <<>>
    ELSE
      LET email      == emails[1]
          meal_dates == DictGetDefault(meal, email, {})
          rest       == NotificationRows(Tail(emails), excluded, yesterday,
                                         meal, names, regs)
      IN  IF \E i \in 1..Len(excluded) : excluded[i] = email THEN rest
          ELSE IF yesterday \notin meal_dates
          THEN <<<<DictGetDefault(names, email, LocalPart(email)),
                   LocalPart(email),
                   RegistrationDisplay(email, regs),
                   IF meal_dates # {} THEN StrfTime(MaxDate(meal_dates))
                                      ELSE EOPSEUM>>>> \o rest
          ELSE rest

\* the table of the users to notify: the rows, or the placeholder row
NotificationTable(emails, excluded, yesterday, meal, names, regs) ==
    LET rows == NotificationRows(emails, excluded, yesterday, meal, names,
                                 regs)
    IN  IF rows # <<>> THEN rows
        ELSE <<<<Dash, Dash, Dash, NoNotification>>>>

\* the table of the excluded users
DropoutTable(excluded, names, regs) ==
    IF excluded # <<>>
    THEN [i \in 1..Len(excluded) |->
            <<DictGetDefault(names, excluded[i], LocalPart(excluded[i])),
              LocalPart(excluded[i]),
              RegistrationDisplay(excluded[i], regs)>>]
    ELSE <<<<Dash, Dash, NoDropout>>>>

\* FirebaseAnalyzer.generate_markdown_table; end_date and now are the two
\* readings of the clock, a date and a datetime
GenerateMarkdownTable(cheddar, meal, weights, names, regs, end_date, now) ==
    LET sorted_dates == Sorted(AllDates(StartDate, end_date))
        today        == now.date
        yesterday    == SubDay(today)
        two_days_ago == SubDay(SubDay(today))
        sections     == WeightSections(roster, weights, names)
    IN  [kind         |-> "FA",
         analysed     |-> StrfDateTime(now),
         now          |-> today,
         dates        |-> [i \in 1..Len(sorted_dates) |->
                             StrfTime(sorted_dates[i])],
         days         |-> sorted_dates,
         grid         |-> [i \in 1..Len(roster) |->
                             GridRow(roster[i], sorted_dates, cheddar, meal,
                                     weights, names, regs)],
         weights      |-> IF sections # <<>> THEN sections
                          ELSE <<NoWeightUsers>>,
         today        |-> ActivityTable(roster, today, cheddar, meal, names,
                                        NoToday),
         yesterday    |-> ActivityTable(roster, yesterday, cheddar, meal,
                                        names, NoYesterday),
         two_days_ago |-> ActivityTable(roster, two_days_ago, cheddar, meal,
                                        names, NoTwoDaysAgo),
         latest       |-> [i \in 1..Len(roster) |->
                             LatestRow(roster[i], cheddar, meal, weights,
                                       names)],
         notification |-> NotificationTable(roster, exclude, yesterday, meal,
                                            names, regs),
         dropout      |-> DropoutTable(exclude, names, regs)]

\* FirebaseAnalyzer.save_to_excel
SaveToExcel(cheddar, meal, weights, names, end_date) ==
    LET all_dates == AllDates(StartDate, end_date)
        Cell(email, date) ==
          LET has_cheddar == date \in DictGetDefault(cheddar, email, {})
              has_meal    == date \in DictGetDefault(meal, email, {})
              cell_content == IF has_cheddar THEN <<"daehwa">>
                              ELSE IF has_meal THEN <<"sikdan">>
                              ELSE <<>>
              weight == DictGet(DictGetDefault(weights, email, EmptyDict),
                                date)
          IN  IF Truthy(weight)
              THEN IF cell_content # <<>>
                   THEN cell_content \o <<" ", "(">>
                        \o FormatOneDecimal(weight) \o <<"kg)">>
                   ELSE <<"(">> \o FormatOneDecimal(weight) \o <<"kg)">>
              ELSE cell_content
    IN  [kind    |-> "FA",
         columns |-> <<<<"sayongja">>, <<"imeil">>>>
                     \o [i \in 1..Len(all_dates) |-> StrfTime(all_dates[i])],
         days    |-> all_dates,
         rows    |-> [i \in 1..Len(roster) |->
                        [name  |-> DictGetDefault(names, roster[i],
                                                  LocalPart(roster[i])),
                         email |-> LocalPart(roster[i]),
                         cells |-> [j \in 1..Len(all_dates) |->
                                      Cell(roster[i], all_dates[j])]]]]

-----------------------------------------------------------------------------
(* CheddarAnalyzer exports *)

\* (end - start).days
RECURSIVE DaysBetween(_, _)
DaysBetween(start, end) ==
    IF start = end THEN 0
    ELSE IF DateLT(start, end) THEN DaysBetween(AddDay(start), end) + 1
    ELSE 0 - DaysBetween(end, start)

\* start + timedelta(days=i)
RECURSIVE AddDays(_, _)
AddDays(d, i) == IF i = 0 THEN d ELSE AddDays(AddDay(d), i - 1)

\* daterange(start, end): [start + timedelta(days=i) for i in range(n + 1)]
DateRange(start, end) ==
    LET n == DaysBetween(start, end)
    IN  [i \in 1..(n + 1) |-> AddDays(start, i - 1)]

\* the values of the members of Activity present on day d, in member order
ActivityValues(email, d, cheddar, meal) ==
    (IF d \in DictGetDefault(cheddar, email, {}) THEN <<"C">> ELSE <<>>)
    \o (IF d \in DictGetDefault(meal, email, {}) THEN <<"M">> ELSE <<>>)

\* CheddarAnalyzer._row_markdown
RowMarkdown(email, dates, cheddar, meal, weights, names) ==
    LET Cell(d) ==
          LET w == DictGet(DictGetDefault(weights, email, EmptyDict), d)
          IN  ActivityValues(email, d, cheddar, meal)
              \o (IF w # None
                  THEN <<"(">> \o FormatOneDecimal(w) \o <<"kg)">>
                  ELSE <<>>)
    IN  [name     |-> names[email],
         email    |-> LocalPart(email),
         cells    |-> [i \in 1..Len(dates) |-> Cell(dates[i])],
         name_end |-> names[email]]

\* CheddarAnalyzer._render_markdown
RenderMarkdown(cheddar, meal, weights, names, today) ==
    LET dates == DateRange(start_date, today)
    IN  [kind  |-> "CA",
         analysed |-> IsoFormat(today),
         now   |-> today,
         dates |-> [i \in 1..Len(dates) |-> IsoFormat(dates[i])],
         days  |-> dates,
         grid  |-> [i \in 1..Len(roster) |->
                      RowMarkdown(roster[i], dates, cheddar, meal, weights,
                                  names)]]

\* CheddarAnalyzer._save_excel
SaveExcel(cheddar, meal, weights, names, today) ==
    LET dates == DateRange(start_date, today)
        Cell(email, d) ==
          LET w == DictGet(DictGetDefault(weights, email, EmptyDict), d)
          IN  ActivityValues(email, d, cheddar, meal)
              \o (IF w # None
                  THEN <<" ", "(">> \o FormatOneDecimal(w) \o <<")">>
                  ELSE <<>>)
    IN  [kind    |-> "CA",
         columns |-> <<<<"name">>, <<"email">>>>
                     \o [i \in 1..Len(dates) |-> IsoFormat(dates[i])],
         days    |-> dates,
         rows    |-> [i \in 1..Len(roster) |->
                        [name  |-> names[roster[i]],
                         email |-> LocalPart(roster[i]),
                         cells |-> [j \in 1..Len(dates) |->
                                      Cell(roster[i], dates[j])]]]]

-----------------------------------------------------------------------------
(* main() of FA, run() of CA after the aggregation *)

Collected == pc = "collect" /\ idx > Len(roster)

\* the dictionary d after d.setdefault(key, default)
AfterSetDefault(d, key, default) ==
    IF key \in DOMAIN d THEN d ELSE DictSet(d, key, default)

\* the dictionary d after d.get(key, default)
AfterGet(d, key, default) == d

\* the dictionary d after one d.get(email, default) per listed user, which
\* is how generate_markdown_table and save_to_excel read their arguments
RECURSIVE AfterLookups(_, _, _)
AfterLookups(d, emails, default) ==
    IF emails = <<>> THEN d
    ELSE AfterLookups(AfterGet(d, emails[1], default), Tail(emails), default)

\* main: markdown = analyzer.generate_markdown_table(...); midnight may pass
\* between date.today() and datetime.now()
MainGenerateMarkdown ==
    /\ prog = "FA"
    /\ Collected
    /\ \E passes \in {FALSE} \cup (IF ticks < MaxTicks THEN {TRUE} ELSE {}),
          tod \in TimesOfDay :
         LET end_date == clock.date
             now      == [date |-> IF passes THEN AddDay(clock.date)
                                             ELSE clock.date,
                          tod  |-> tod]
         IN  /\ markdown' = GenerateMarkdownTable(cheddar_dates_by_user,
                                meal_dates_by_user, weight_data_by_user,
                                user_names, registration_dates, end_date, now)
             /\ clock' = [clock EXCEPT !.date = now.date]
             /\ ticks' = IF passes THEN ticks + 1 ELSE ticks
    /\ cheddar_dates_by_user' = AfterLookups(cheddar_dates_by_user, roster, {})
    /\ meal_dates_by_user' = AfterLookups(meal_dates_by_user, roster, {})
    /\ weight_data_by_user' =
           AfterLookups(weight_data_by_user, roster, EmptyDict)
    /\ user_names' = AfterLookups(user_names, roster \o exclude, <<>>)
    /\ registration_dates' =
           AfterLookups(registration_dates, roster \o exclude, EOPSEUM)
    /\ pc' = "save_md"
    /\ UNCHANGED <<prog, members, credential, firebase, roster, exclude,
                   start_date, store, idx, step, locals, faulted, readme,
                   excel, codec>>

\* run: markdown = self._render_markdown(...)
RunRenderMarkdown ==
    /\ prog = "CA"
    /\ Collected
    /\ markdown' = RenderMarkdown(cheddar_dates_by_user, meal_dates_by_user,
                                  weight_data_by_user, user_names, clock.date)
    /\ pc' = "save_md"
    /\ UNCHANGED <<prog, members, credential, firebase, roster, exclude,
                   start_date, store, clock, ticks, idx, step, user_names,
                   registration_dates, cheddar_dates_by_user,
                   meal_dates_by_user, weight_data_by_user, locals, faulted,
                   readme, excel, codec>>

\* save_to_readme (FA), _save_markdown (CA); the file cannot always be
\* opened for writing, and the exception leaves main
SaveToReadme ==
    /\ pc = "save_md"
    /\ \E raises \in BOOLEAN :
         /\ readme' = IF raises THEN readme ELSE markdown
         /\ pc' = IF raises THEN "crashed" ELSE "save_xlsx"
    /\ UNCHANGED <<prog, members, credential, firebase, roster, exclude,
                   start_date, store, clock, ticks, idx, step, user_names,
                   registration_dates, cheddar_dates_by_user,
                   meal_dates_by_user, weight_data_by_user, locals, faulted,
                   markdown, excel, codec>>

\* main: analyzer.save_to_excel(...); df.to_excel may raise
MainSaveToExcel ==
    /\ prog = "FA"
    /\ pc = "save_xlsx"
    /\ \E raises \in BOOLEAN :
         /\ excel' = IF raises THEN excel
                     ELSE SaveToExcel(cheddar_dates_by_user,
                                      meal_dates_by_user, weight_data_by_user,
                                      user_names, clock.date)
         /\ pc' = IF raises THEN "crashed" ELSE "done"
    /\ cheddar_dates_by_user' = AfterLookups(cheddar_dates_by_user, roster, {})
    /\ meal_dates_by_user' = AfterLookups(meal_dates_by_user, roster, {})
    /\ weight_data_by_user' =
           AfterLookups(weight_data_by_user, roster, EmptyDict)
    /\ user_names' = AfterLookups(user_names, roster, <<>>)
    /\ UNCHANGED <<prog, members, credential, firebase, roster, exclude,
                   start_date, store, clock, ticks, idx, step,
                   registration_dates, locals, faulted, markdown, readme,
                   codec>>

\* run: self._save_excel(...); df.to_excel may raise
RunSaveExcel ==
    /\ prog = "CA"
    /\ pc = "save_xlsx"
    /\ \E raises \in BOOLEAN :
         /\ excel' = IF raises THEN excel
                     ELSE SaveExcel(cheddar_dates_by_user, meal_dates_by_user,
                                    weight_data_by_user, user_names,
                                    clock.date)
         /\ pc' = IF raises THEN "crashed" ELSE "done"
    /\ UNCHANGED <<prog, members, credential, firebase, roster, exclude,
                   start_date, store, clock, ticks, idx, step, user_names,
                   registration_dates, cheddar_dates_by_user,
                   meal_dates_by_user, weight_data_by_user, locals, faulted,
                   markdown, readme, codec>>

\* the wall clock passes midnight
Tick ==
    /\ ticks < MaxTicks
    /\ pc \in {"collect", "save_md", "save_xlsx"}
    /\ clock' = [clock EXCEPT !.date = AddDay(clock.date)]
    /\ ticks' = ticks + 1
    /\ UNCHANGED <<prog, members, credential, firebase, roster, exclude,
                   start_date, store, pc, idx, step, user_names,
                   registration_dates, cheddar_dates_by_user,
                   meal_dates_by_user, weight_data_by_user, locals, faulted,
                   markdown, readme, excel, codec>>

Next ==
    \/ MainFirebaseAnalyzer
    \/ MainCheddarAnalyzer
    \/ AnalyzeUserName
    \/ AnalyzeUserRegistration
    \/ AnalyzeUserCheddar
    \/ AnalyzeUserMeal
    \/ AnalyzeUserWeight
    \/ CollectName
    \/ CollectCheddar
    \/ CollectMeal
    \/ CollectWeights
    \/ MainGenerateMarkdown
    \/ RunRenderMarkdown
    \/ SaveToReadme
    \/ MainSaveToExcel
    \/ RunSaveExcel
    \/ Tick

Spec == Init /\ [][Next]_vars

-----------------------------------------------------------------------------
(* The fetch specification: the aggregation of one user whose three       *)
(* sub-collections hold the same stream of up to MaxDocs records drawn     *)
(* from FetchDocs.                                                         *)

FetchDocs ==
    { WDoc(Id0401, FloatVal(6350)), WDoc(Id0401, IntVal(70)),
      WDoc(Id0401, IntVal(0)), WDoc(Id0401, IntVal(0 - 5)),
      WDoc(Id0401, StrVal), WDoc(Id0331, BoolVal(TRUE)),
      WDoc(IdShort, FloatVal(6025)), WDoc(IdWord, FloatVal(6350)),
      Doc(Id0331) }

RECURSIVE SeqsUpTo(_, _)
SeqsUpTo(S, n) ==
    IF n = 0 THEN {<<>>}
    ELSE LET shorter == SeqsUpTo(S, n - 1)
         IN  shorter \cup {Append(q, x) : q \in shorter, x \in S}

InitFetch ==
    /\ prog \in {"FA", "CA"}
    /\ credential = "valid"
    /\ roster = <<alice>>
    /\ exclude = <<>>
    /\ start_date = StartDate
    /\ \E docs \in SeqsUpTo(FetchDocs, MaxDocs),
          p \in {Patient(NameAL, StartDate), Missing} :
         store = (alice :> UserData(p, docs, docs, docs))
    /\ clock = [date |-> FirstDay]
    /\ InitRun

\* the run up to the end of the aggregation
NextFetch ==
    \/ MainFirebaseAnalyzer
    \/ MainCheddarAnalyzer
    \/ AnalyzeUserName
    \/ AnalyzeUserRegistration
    \/ AnalyzeUserCheddar
    \/ AnalyzeUserMeal
    \/ AnalyzeUserWeight
    \/ CollectName
    \/ CollectCheddar
    \/ CollectMeal
    \/ CollectWeights

SpecFetch == InitFetch /\ [][NextFetch]_vars

-----------------------------------------------------------------------------
(* The report specification: two users, an exclusion list that names a     *)
(* user outside the roster, a start date and a clock on either side of     *)
(* each other, and a user with weight samples on two days.                 *)

Day0329 == [year |-> 2025, month |-> 3, day |-> 29]
Day0403 == [year |-> 2025, month |-> 4, day |-> 3]

dave == <<"d", "@", "v">>

ReportProfiles ==
    { UserData(Patient(NameAL, StartDate),
               <<Doc(Id0401)>>,
               <<Doc(Id0331)>>,
               <<WDoc(Id0331, FloatVal(6025)), WDoc(Id0401, FloatVal(6350))>>),
      UserData(Missing,
               <<>>,
               <<Doc(Id0402)>>,
               <<WDoc(Id0402, IntVal(70))>>) }

InitReport ==
    /\ prog \in {"FA", "CA"}
    /\ credential = "valid"
    /\ roster = <<alice, bob>>
    /\ exclude \in {<<>>, <<dave, bob>>}
    /\ start_date \in (IF prog = "FA" THEN {StartDate}
                                      ELSE {StartDate, Day0403})
    /\ store \in [Emails(roster) -> ReportProfiles]
    /\ clock \in {[date |-> Day0329], [date |-> FirstDay]}
    /\ InitRun

SpecReport == InitReport /\ [][Next]_vars

-----------------------------------------------------------------------------
(* The codec specification: both decoders applied to one identifier.  The  *)
(* identifiers are an optional prefix followed by a year, a month and a    *)
(* day fragment, some of them too short or not made of digits.             *)

CodecPrefixes == {<<>>, <<"c">>}

CodecYears ==
    { <<"2", "0", "2", "5">>, <<"2", "0", "2", "4">>, <<"0", "0", "0", "0">>,
      <<"9", "9", "9", "9">>, <<"+", "2", "2", "5">>, <<" ", "2", "2", "5">>,
      <<"2", "_", "2", "5">>, <<"-", "2", "2", "5">>, <<"2", "0", "a", "5">>,
      <<"0", "2", "5">> }

CodecMonths ==
    { <<"0", "1">>, <<"0", "2">>, <<"0", "4">>, <<"1", "2">>, <<"1", "3">>,
      <<"0", "0">>, <<"+", "1">>, <<"W", "0">>, <<"1">>, <<>> }

CodecDays ==
    { <<"1", "5">>, <<"2", "9">>, <<"3", "0">>, <<"3", "1">>, <<"0", "0">>,
      <<" ", "5">>, <<"1", "a">>, <<"5">>, <<>> }

CodecIds ==
    {p \o y \o m \o d :
        p \in CodecPrefixes, y \in CodecYears, m \in CodecMonths,
        d \in CodecDays}

InitCodec ==
    /\ prog = "FA"
    /\ credential = "valid"
    /\ firebase = FirebaseAtImport(TRUE)
    /\ roster = <<>>
    /\ exclude = <<>>
    /\ start_date = StartDate
    /\ store = EmptyDict
    /\ clock = [date |-> FirstDay]
    /\ ticks = 0
    /\ pc = "idle"
    /\ idx = 1
    /\ step = "name"
    /\ user_names = EmptyDict
    /\ registration_dates = EmptyDict
    /\ cheddar_dates_by_user = EmptyDict
    /\ meal_dates_by_user = EmptyDict
    /\ weight_data_by_user = EmptyDict
    /\ locals = NoLocals
    /\ faulted = {}
    /\ markdown = NoMarkdown
    /\ readme = NoFile
    /\ excel = NoFile
    /\ \E id \in CodecIds :
         codec = [phase |-> "input", doc_id |-> id, fa |-> None, ca |-> None]
    /\ members = NoMembers

\* both decoders are called with the identifier
Decode ==
    /\ codec.phase = "input"
    /\ codec' = [codec EXCEPT
                   !.phase = "decoded",
                   !.fa = ExtractDateFromDocumentId(codec.doc_id),
                   !.ca = ExtractDate(codec.doc_id)]
    /\ UNCHANGED <<prog, members, credential, firebase, roster, exclude,
                   start_date, store, clock, ticks, pc, idx, step, user_names,
                   registration_dates, cheddar_dates_by_user,
                   meal_dates_by_user, weight_data_by_user, locals, faulted,
                   markdown, readme, excel>>

NextCodec == Decode

SpecCodec == InitCodec /\ [][NextCodec]_vars

-----------------------------------------------------------------------------
(* The singleton specification: _LazyFirebase(credential_path) is called   *)
(* up to MaxAttempts times in one process, with or without the SDK.        *)

MaxAttempts == 4

InitLazy ==
    /\ prog = "CA"
    /\ credential = "valid"
    /\ \E sdk \in BOOLEAN : firebase = FirebaseAtImport(sdk)
    /\ roster = <<>>
    /\ exclude = <<>>
    /\ start_date = StartDate
    /\ store = EmptyDict
    /\ clock = [date |-> FirstDay]
    /\ ticks = 0
    /\ pc = "idle"
    /\ idx = 1
    /\ step = "name"
    /\ user_names = EmptyDict
    /\ registration_dates = EmptyDict
    /\ cheddar_dates_by_user = EmptyDict
    /\ meal_dates_by_user = EmptyDict
    /\ weight_data_by_user = EmptyDict
    /\ locals = NoLocals
    /\ faulted = {}
    /\ markdown = NoMarkdown
    /\ readme = NoFile
    /\ excel = NoFile
    /\ codec = IdleCodec
    /\ members = NoMembers

\* _LazyFirebase(credential_path)
Construct ==
    /\ pc = "idle"
    /\ Len(firebase.calls) < MaxAttempts
    /\ \E credential_path \in Credentials :
         firebase' = LazyFirebaseNew(firebase, credential_path)
    /\ UNCHANGED <<prog, members, credential, roster, exclude, start_date,
                   store, clock, ticks, pc, idx, step, user_names,
                   registration_dates, cheddar_dates_by_user,
                   meal_dates_by_user, weight_data_by_user, locals, faulted,
                   markdown, readme, excel, codec>>

NextLazy == Construct

SpecLazy == InitLazy /\ [][NextLazy]_vars

-----------------------------------------------------------------------------
(* cheddar_4week_weight.py: cells of the member sheet *)

\* What pandas hands over for one cell: NaN for an empty cell, otherwise a
\* value of which the script only ever uses str(value).  The two Hangul
\* syllables of the date headers are the one-element tokens "wol" (month)
\* and "il" (day); the header label of the name column is <<"i", "reum">>.
NaN == [kind |-> "NaN"]

Text(t) == [kind |-> "str", text |-> t]

\* pd.isna(value)
IsNa(value) == value.kind = "NaN"

\* str(value).strip()
Strip(t) == RStrip(LStrip(t))

\* str.lower()
Lower(t) ==
    LET UpperChars ==
            <<"A", "B", "C", "D", "E", "F", "G", "H", "I", "J", "K", "L", "M",
              "N", "O", "P", "Q", "R", "S", "T", "U", "V", "W", "X", "Y", "Z">>
        LowerChars ==
            <<"a", "b", "c", "d", "e", "f", "g", "h", "i", "j", "k", "l", "m",
              "n", "o", "p", "q", "r", "s", "t", "u", "v", "w", "x", "y", "z">>
    IN  [i \in 1..Len(t) |->
            IF \E k \in 1..26 : UpperChars[k] = t[i]
            THEN LowerChars[CHOOSE k \in 1..26 : UpperChars[k] = t[i]]
            ELSE t[i]]

\* needle in text, for a needle of two characters
Contains2(t, a, b) == \E i \in 1..(Len(t) - 1) : t[i] = a /\ t[i + 1] = b

\* re.match(r'^\d+(\.\d+)?$', text): the integer digits and the fraction
\* digits of the match, ok = FALSE when there is no match.
DecimalMatch(t) ==
    LET dots == {i \in 1..Len(t) : t[i] = "."}
        int_end == IF dots = {} THEN Len(t)
                   ELSE (CHOOSE i \in dots : \A j \in dots : i <= j) - 1
        int_part  == SubSeq(t, 1, int_end)
        frac_part == SubSeq(t, int_end + 2, Len(t))
        AllDigits(s) == s # <<>> /\ \A i \in 1..Len(s) : IsDigit(s[i])
    IN  IF AllDigits(int_part) /\ (dots = {} \/ AllDigits(frac_part))
        THEN [ok |-> TRUE, int |-> int_part, frac |-> frac_part]
        ELSE [ok |-> FALSE, int |-> <<>>, frac |-> <<>>]

\* is_weight_record(cell_value)
IsWeightRecord(cell_value) ==
    LET cell_str == Lower(Strip(cell_value.text))
        m        == DecimalMatch(cell_str)
        whole    == DigitsValue(m.int, 0)
        no_frac  == \A i \in 1..Len(m.frac) : m.frac[i] = "0"
    IN  IF Contains2(cell_str, "k", "g") THEN TRUE
        ELSE IF m.ok
        THEN 30 <= whole /\ (whole < 200 \/ (whole = 200 /\ no_frac))
        ELSE FALSE

\* is_valid_member(name)
IsValidMember(name) ==
    IF IsNa(name) \/ Strip(name.text) = <<>> THEN FALSE
    ELSE LET name_str == Strip(name.text)
         IN  name_str # <<"i", "reum">> /\ Len(name_str) > 0

-----------------------------------------------------------------------------
(* cheddar_4week_weight.py: dates *)

\* A datetime: a calendar date and a time of day.
Midnight == [hour |-> 0, minute |-> 0, second |-> 0]

DateTime(d, tod) == [date |-> d, tod |-> tod]

\* a >= b on datetimes
DateTimeGE(a, b) ==
    LET Seconds(tod) == 3600 * tod.hour + 60 * tod.minute + tod.second
    IN  \/ DateLT(b.date, a.date)
        \/ a.date = b.date /\ Seconds(a.tod) >= Seconds(b.tod)

\* date - timedelta(days=n)
RECURSIVE SubDays(_, _)
SubDays(d, n) == IF n = 0 THEN d ELSE SubDays(SubDay(d), n - 1)

\* The first position at or after p that holds no blank (\s*).
RECURSIVE SkipBlanks(_, _)
SkipBlanks(t, p) ==
    IF p <= Len(t) /\ t[p] = " " THEN SkipBlanks(t, p + 1) ELSE p

\* The last position of the run of digits that starts at p (\d+, greedy);
\* p - 1 when there is no digit at p.
RECURSIVE DigitRunEnd(_, _)
DigitRunEnd(t, p) ==
    IF p <= Len(t) /\ IsDigit(t[p]) THEN DigitRunEnd(t, p + 1) ELSE p - 1

\* The first position of the run of digits that ends at e.
RECURSIVE DigitRunStart(_, _)
DigitRunStart(t, e) ==
    IF e >= 1 /\ IsDigit(t[e]) THEN DigitRunStart(t, e - 1) ELSE e + 1

\* re.search(r'(\d+)wol\s*(\d+)il', text): the leftmost match, its groups
\* converted with int().
MonthDaySearch(t) ==
    LET Fits(w) ==
            /\ t[w] = "wol"
            /\ w > 1
            /\ IsDigit(t[w - 1])
            /\ LET p == SkipBlanks(t, w + 1)
                   q == DigitRunEnd(t, p)
               IN  q >= p /\ q < Len(t) /\ t[q + 1] = "il"
        ws == {w \in 1..Len(t) : Fits(w)}
    IN  IF ws = {} THEN [ok |-> FALSE, month |-> 0, day |-> 0]
        ELSE LET w == CHOOSE x \in ws : \A y \in ws : x <= y
                 p == SkipBlanks(t, w + 1)
                 q == DigitRunEnd(t, p)
             IN  [ok    |-> TRUE,
                  month |-> DigitsValue(SubSeq(t, DigitRunStart(t, w - 1),
                                               w - 1), 0),
                  day   |-> DigitsValue(SubSeq(t, p, q), 0)]

\* pd.to_datetime(text) on the texts the sheets hold: an ISO calendar date
\* gives that day at midnight, any other text raises (None).
ToDatetime(t) ==
    LET d == IF Len(t) = 10 /\ t[5] = "-" THEN FromIsoFormat(t) ELSE None
    IN  IF d = None THEN None ELSE DateTime(d, Midnight)

\* parse_date_string(date_str), with year = datetime.now().year; None is
\* returned for NaN and from the bare except.
ParseDateString(date_str, year) ==
    IF IsNa(date_str) THEN None
    ELSE
      LET t == Strip(date_str.text)
          has_both == (\E i \in 1..Len(t) : t[i] = "wol")
                      /\ (\E i \in 1..Len(t) : t[i] = "il")
          match == MonthDaySearch(t)
      IN  IF has_both /\ match.ok
          THEN LET d == MakeDate(year, match.month, match.day)
               IN  IF d = None THEN None ELSE DateTime(d, Midnight)
          ELSE ToDatetime(t)

\* create_date_mapping(date_row, date_columns): the columns whose header
\* parses, each with its datetime.
CreateDateMapping(date_row, date_columns, year) ==
    [col \in {c \in date_columns :
                ParseDateString(date_row[c], year) # None}
        |-> ParseDateString(date_row[col], year)]

\* The days of the year y that precede the first day of month m.
RECURSIVE DaysBeforeMonth(_, _)
DaysBeforeMonth(y, m) ==
    IF m = 1 THEN 0 ELSE DaysBeforeMonth(y, m - 1) + DaysInMonth(y, m - 1)

\* date.toordinal(): day 1 is 0001-01-01.
ToOrdinal(d) ==
    LET y == d.year - 1
    IN  y * 365 + (y \div 4) - (y \div 100) + (y \div 400)
          + DaysBeforeMonth(d.year, d.month) + d.day

\* datetime.weekday(): 0 is Monday, 6 is Sunday.
Weekday(d) == (ToOrdinal(d) + 6) % 7

\* calculate_onboarding_days(signup_date)
CalculateOnboardingDays(signup_date) ==
    LET weekday == Weekday(signup_date)
        to_sunday == (6 - weekday) % 7
        days_to_sunday == IF to_sunday = 0 THEN 7 ELSE to_sunday
    IN  Max(1, Min(days_to_sunday + 1, 7))

-----------------------------------------------------------------------------
(* cheddar_4week_weight.py: extract_member_lists *)

\* analyze_weight_records(row, date_columns, date_mapping, two_weeks_ago);
\* date_columns are visited in order, cols is the part still to visit.
RECURSIVE WeightLoop(_, _, _, _, _)
WeightLoop(row, cols, date_mapping, two_weeks_ago, status) ==
    IF cols = <<>> THEN status
    ELSE
      LET col        == Head(cols)
          cell_value == row.cells[col]
          is_weight  == ~IsNa(cell_value) /\ IsWeightRecord(cell_value)
          is_recent  == /\ col \in DOMAIN date_mapping
                        /\ DateTimeGE(date_mapping[col], two_weeks_ago)
      IN  WeightLoop(row, Tail(cols), date_mapping, two_weeks_ago,
            IF is_weight
            THEN [has_any_weight    |-> TRUE,
                  has_recent_weight |-> status.has_recent_weight
                                        \/ is_recent]
            ELSE status)

AnalyzeWeightRecords(row, date_columns, date_mapping, two_weeks_ago) ==
    WeightLoop(row, date_columns, date_mapping, two_weeks_ago,
               [has_any_weight |-> FALSE, has_recent_weight |-> FALSE])

\* The mutation of the two weight branches in which the second one is an
\* if of its own instead of an elif.
WeightListsIf(m, member_name, weight_status) ==
    [m EXCEPT
       !.never_weight =
           IF ~weight_status.has_any_weight
           THEN Append(@, member_name) ELSE @,
       !.no_weight_2weeks =
           IF ~weight_status.has_recent_weight
           THEN Append(@, member_name) ELSE @]

\* if not has_any_weight: never_weight.append(...)
\* elif not has_recent_weight: no_weight_2weeks.append(...)
WeightLists(m, member_name, weight_status) ==
    IF ~weight_status.has_any_weight
    THEN [m EXCEPT !.never_weight = Append(@, member_name)]
    ELSE IF ~weight_status.has_recent_weight
    THEN [m EXCEPT !.no_weight_2weeks = Append(@, member_name)]
    ELSE m

\* The body of the loop over data_rows for one row.
LoopBody(m, row) ==
    LET member_name == row.name
        signup_date == ParseDateString(row.signup, m.today.date.year)
    IN  IF ~IsValidMember(member_name) THEN m
        ELSE
          LET counted == [m EXCEPT !.valid_members = @ + 1]
          IN  IF signup_date = None THEN counted
              ELSE
                LET days_since_signup ==
                        DaysBetween(signup_date.date, m.today.date)
                    onboarding_days ==
                        CalculateOnboardingDays(signup_date.date)
                    effective_days == days_since_signup - onboarding_days
                    weight_status ==
                        AnalyzeWeightRecords(row, m.date_columns,
                                             m.date_mapping, m.two_weeks_ago)
                    listed ==
                        [counted EXCEPT
                           !.over_4weeks =
                               IF effective_days > 28
                               THEN Append(@, member_name) ELSE @,
                           !.onboarding_days = onboarding_days,
                           !.weight_status = weight_status]
                IN  WeightLists(listed, member_name, weight_status)

-----------------------------------------------------------------------------
(* The member lists of sheets of a few rows *)

MaxRows == 2

Today0616 == [year |-> 2025, month |-> 6, day |-> 16]

\* Times of day at which datetime.now() is read.
NowTimes == {Midnight, [hour |-> 9, minute |-> 5, second |-> 0]}

\* The first row of the sheet under the date columns: a day more than two
\* weeks back, the day two weeks back, a day of last week, and a header
\* that is no date.
DateRow ==
    << Text(<<"0", "5", "wol", " ", "2", "0", "il">>),
       Text(<<"0", "6", "wol", "0", "2", "il">>),
       Text(<<"0", "6", "wol", " ", "1", "0", "il">>),
       Text(<<"m", "e", "m", "o">>) >>

\* The data rows a sheet is made of: a name, a signup cell and the cells
\* under the four date columns.
MemberRows ==
    LET Signup0501 == Text(<<"2", "0", "2", "5", "-", "0", "5", "-", "0", "1">>)
        Signup0609 == Text(<<"0", "6", "wol", " ", "0", "9", "il">>)
        SignupBad  == Text(<<"?">>)
        Kg635      == Text(<<"6", "3", ".", "5", "K", "g">>)
        Num700     == Text(<<"7", "0", ".", "0">>)
        Num2005    == Text(<<"2", "0", "0", ".", "5">>)
        Mark       == Text(<<"C">>)
        NameK      == Text(<<"K">>)
        NameL      == Text(<<" ", "L">>)
        SheetRow(name, signup, cells) ==
            [name |-> name, signup |-> signup, cells |-> cells]
        CellRows ==
            { <<NaN, NaN, NaN, NaN>>,
              <<Kg635, NaN, NaN, NaN>>,
              <<NaN, Num700, NaN, NaN>>,
              <<Mark, NaN, Kg635, NaN>>,
              <<NaN, NaN, Mark, Kg635>>,
              <<Num2005, NaN, NaN, Mark>> }
    IN  {SheetRow(NameK, sg, c) : sg \in {Signup0501, SignupBad},
                                  c \in CellRows}
        \cup {SheetRow(NameL, Signup0609, c) : c \in CellRows}
        \cup { SheetRow(NameL, NaN, <<Kg635, NaN, NaN, NaN>>),
               SheetRow(NaN, Signup0501, <<NaN, NaN, NaN, NaN>>),
               SheetRow(Text(<<"i", "reum">>), Signup0501,
                        <<NaN, NaN, Kg635, NaN>>),
               SheetRow(Text(<<" ">>), Signup0501,
                        <<Kg635, NaN, NaN, NaN>>) }

\* Every variable of the two report scripts at rest.
ReportsIdle ==
    /\ prog = "W4"
    /\ credential = "valid"
    /\ firebase = FirebaseAtImport(TRUE)
    /\ roster = <<>>
    /\ exclude = <<>>
    /\ start_date = StartDate
    /\ store = EmptyDict
    /\ ticks = 0
    /\ pc = "idle"
    /\ idx = 1
    /\ step = "name"
    /\ user_names = EmptyDict
    /\ registration_dates = EmptyDict
    /\ cheddar_dates_by_user = EmptyDict
    /\ meal_dates_by_user = EmptyDict
    /\ weight_data_by_user = EmptyDict
    /\ locals = NoLocals
    /\ faulted = {}
    /\ markdown = NoMarkdown
    /\ readme = NoFile
    /\ excel = NoFile
    /\ codec = IdleCodec

\* The locals of extract_member_lists before the sheet is read.
MembersAtStart(exists, date_row, data_rows) ==
    [phase            |-> "start",
     exists           |-> exists,
     date_row         |-> date_row,
     data_rows        |-> data_rows,
     date_columns     |-> <<>>,
     today            |-> None,
     two_weeks_ago    |-> None,
     date_mapping     |-> <<>>,
     idx              |-> 1,
     valid_members    |-> 0,
     over_4weeks      |-> <<>>,
     no_weight_2weeks |-> <<>>,
     never_weight     |-> <<>>,
     onboarding_days  |-> None,
     weight_status    |-> None,
     result           |-> None]

InitMembers ==
    /\ ReportsIdle
    /\ clock = [date |-> Today0616]
    /\ \E exists \in BOOLEAN, data_rows \in SeqsUpTo(MemberRows, MaxRows) :
         members = MembersAtStart(exists, DateRow, data_rows)

\* extract_member_lists up to the loop: the file test, the columns, the
\* clock and the date mapping.
ReadSheet ==
    /\ prog = "W4"
    /\ members.phase = "start"
    /\ IF ~members.exists
       THEN members' = [members EXCEPT !.phase = "returned"]
       ELSE \E tod \in NowTimes :
              LET today == DateTime(clock.date, tod)
                  date_columns == [c \in 1..Len(members.date_row) |-> c]
              IN  members' =
                    [members EXCEPT
                       !.phase = "loop",
                       !.date_columns = date_columns,
                       !.today = today,
                       !.two_weeks_ago =
                           DateTime(SubDays(today.date, 14), today.tod),
                       !.date_mapping =
                           CreateDateMapping(members.date_row,
                               {date_columns[c] : c \in 1..Len(date_columns)},
                               today.date.year)]
    /\ UNCHANGED <<prog, credential, firebase, roster, exclude, start_date,
                   store, clock, ticks, pc, idx, step, user_names,
                   registration_dates, cheddar_dates_by_user,
                   meal_dates_by_user, weight_data_by_user, locals, faulted,
                   markdown, readme, excel, codec>>

\* One iteration of for idx, row in data_rows.iterrows()
AnalyzeMember ==
    /\ prog = "W4"
    /\ members.phase = "loop"
    /\ members.idx <= Len(members.data_rows)
    /\ members' = [LoopBody(members, members.data_rows[members.idx])
                     EXCEPT !.idx = @ + 1]
    /\ UNCHANGED <<prog, credential, firebase, roster, exclude, start_date,
                   store, clock, ticks, pc, idx, step, user_names,
                   registration_dates, cheddar_dates_by_user,
                   meal_dates_by_user, weight_data_by_user, locals, faulted,
                   markdown, readme, excel, codec>>

\* return {'over_4weeks': ..., 'no_weight_2weeks': ..., 'never_weight': ...}
ReturnLists ==
    /\ prog = "W4"
    /\ members.phase = "loop"
    /\ members.idx > Len(members.data_rows)
    /\ members' =
         [members EXCEPT
            !.phase = "returned",
            !.result = [over_4weeks      |-> members.over_4weeks,
                        no_weight_2weeks |-> members.no_weight_2weeks,
                        never_weight     |-> members.never_weight]]
    /\ UNCHANGED <<prog, credential, firebase, roster, exclude, start_date,
                   store, clock, ticks, pc, idx, step, user_names,
                   registration_dates, cheddar_dates_by_user,
                   meal_dates_by_user, weight_data_by_user, locals, faulted,
                   markdown, readme, excel, codec>>

NextMembers == ReadSheet \/ AnalyzeMember \/ ReturnLists

SpecMembers == InitMembers /\ [][NextMembers]_vars

-----------------------------------------------------------------------------
(* calculate_onboarding_days on the signup dates of a few weeks *)

MaxMonths == 2

\* Every day of the first MaxMonths months after March 2025.
SignupDates ==
    {d \in [year : {2025}, month : 4..(3 + MaxMonths), day : 1..31] :
        d.day <= DaysInMonth(d.year, d.month)}

InitOnboarding ==
    /\ ReportsIdle
    /\ clock = [date |-> Today0616]
    /\ \E d \in SignupDates :
         members = [phase |-> "signup", signup_date |-> d,
                    onboarding_days |-> None]

\* onboarding_days = calculate_onboarding_days(signup_date)
Onboard ==
    /\ prog = "W4"
    /\ members.phase = "signup"
    /\ members' =
         [members EXCEPT
            !.phase = "onboarded",
            !.onboarding_days = CalculateOnboardingDays(members.signup_date)]
    /\ UNCHANGED <<prog, credential, firebase, roster, exclude, start_date,
                   store, clock, ticks, pc, idx, step, user_names,
                   registration_dates, cheddar_dates_by_user,
                   meal_dates_by_user, weight_data_by_user, locals, faulted,
                   markdown, readme, excel, codec>>

NextOnboarding == Onboard

SpecOnboarding == InitOnboarding /\ [][NextOnboarding]_vars

-----------------------------------------------------------------------------
(* Claims *)

\* the last eight characters are eight decimal digits
EndsWithEightDigits(id) ==
    /\ Len(id) >= 8
    /\ \A i \in (Len(id) - 7)..Len(id) : IsDigit(id[i])

\* the year, month and day written by the eight digits that end id
TailYear(id)  == DigitsValue(SubSeq(id, Len(id) - 7, Len(id) - 4), 0)
TailMonth(id) == DigitsValue(SubSeq(id, Len(id) - 3, Len(id) - 2), 0)
TailDay(id)   == DigitsValue(SubSeq(id, Len(id) - 1, Len(id)), 0)

IsCalendarDate(y, m, d) ==
    /\ y \in MINYEAR..MAXYEAR
    /\ m \in 1..12
    /\ d \in 1..DaysInMonth(y, m)

\* what C1 says a decoder returns for id
DecodesAsClaimed(id, result) ==
    IF /\ EndsWithEightDigits(id)
       /\ IsCalendarDate(TailYear(id), TailMonth(id), TailDay(id))
    THEN result = [year |-> TailYear(id), month |-> TailMonth(id),
                   day |-> TailDay(id)]
    ELSE result = None

\* C1: each decoder returns a date iff the identifier has at least eight
\* characters, the last eight are decimal digits YYYYMMDD and they form a
\* valid calendar date; the date returned has that year, month and day.
C1_DecodeIffEightDigitDate ==
    codec.phase = "decoded" =>
        /\ DecodesAsClaimed(codec.doc_id, codec.fa)
        /\ DecodesAsClaimed(codec.doc_id, codec.ca)

\* C2: for an identifier shorter than eight characters both decoders
\* return null.
C2_ShortIdentifierIsNull ==
    (codec.phase = "decoded" /\ Len(codec.doc_id) < 8) =>
        (codec.fa = None /\ codec.ca = None)

C2_Witness ==
    /\ codec.phase = "decoded"
    /\ Len(codec.doc_id) = 7
    /\ \A i \in 1..7 : IsDigit(codec.doc_id[i])

\* the decoder of the running program
DecodeOf(id) ==
    IF prog = "FA" THEN ExtractDateFromDocumentId(id) ELSE ExtractDate(id)

\* the queries of user u that the store failed
FaultsOf(u) == {f \in faulted : f.user = u}
FaultedOp(u, op) == \E f \in faulted : f.user = u /\ f.op = op

\* a record carries a weight field that is a number greater than zero (a
\* Python bool is an int)
HasPositiveWeight(doc) ==
    /\ "weight" \in DOMAIN doc.fields
    /\ doc.fields["weight"].t \in {"int", "float", "bool"}
    /\ doc.fields["weight"].n > 0

FaultFreeNames(u) ==
    IF store[u].patient.exists /\ "name" \in DOMAIN store[u].patient.fields
    THEN store[u].patient.fields["name"]
    ELSE LocalPart(u)

FaultFreeDates(docs) ==
    {DecodeOf(docs[k].id) : k \in 1..Len(docs)} \ {None}

FaultFreeWeightDates(docs) ==
    {DecodeOf(docs[k].id) :
        k \in {j \in 1..Len(docs) : HasPositiveWeight(docs[j])}} \ {None}

Aggregated == Collected \/ pc \in {"save_md", "save_xlsx", "done"}

\* C4: a failing store query of user B does not stop the aggregation, and
\* the entries of every user without a failing query are those of a run
\* without failures.
C4_AggregatorIsolation ==
    /\ faulted # {} => pc # "crashed"
    /\ Aggregated =>
         \A u \in Emails(roster) :
            FaultsOf(u) = {} =>
               /\ user_names[u] = FaultFreeNames(u)
               /\ cheddar_dates_by_user[u] = FaultFreeDates(store[u].cheddar)
               /\ meal_dates_by_user[u] =
                      FaultFreeDates(store[u].meal_tracking)
               /\ DOMAIN weight_data_by_user[u] =
                      FaultFreeWeightDates(store[u].chat_ignore_weekly_data)

\* C5: a fetch of FirebaseAnalyzer whose stream failed returns an empty
\* collection.
C5_FailedFetchIsEmpty ==
    prog = "FA" =>
        \A f \in faulted :
            /\ (f.op = "cheddar" /\ f.user \in DOMAIN cheddar_dates_by_user)
                  => cheddar_dates_by_user[f.user] = {}
            /\ (f.op = "meal" /\ f.user \in DOMAIN meal_dates_by_user)
                  => meal_dates_by_user[f.user] = {}
            /\ (f.op = "weight" /\ f.user \in DOMAIN weight_data_by_user)
                  => weight_data_by_user[f.user] = EmptyDict

\* the part of an identifier before its first @, all of it without an @
BeforeFirstAt(u) ==
    LET k == CHOOSE k \in 0..Len(u) :
                /\ \A i \in 1..k : u[i] # "@"
                /\ (k = Len(u) \/ u[k + 1] = "@")
    IN  SubSeq(u, 1, k)

\* C6: the name resolved for a user is the name of the directory record
\* when the lookup succeeds and the record exists with a name field, and
\* the part of the identifier before the first @ otherwise; a failing
\* lookup does not raise to the aggregator.
C6_NameResolution ==
    /\ \A u \in DOMAIN user_names :
          user_names[u] =
             IF /\ ~FaultedOp(u, "name")
                /\ store[u].patient.exists
                /\ "name" \in DOMAIN store[u].patient.fields
             THEN store[u].patient.fields["name"]
             ELSE BeforeFirstAt(u)
    /\ \A f \in faulted :
          f.op = "name" => (pc # "crashed" /\ f.user \in DOMAIN user_names)

\* the leading activity markers of a grid cell
RECURSIVE MarkerPart(_)
MarkerPart(cell) ==
    IF cell # <<>> /\ cell[1] \in {"C", "M"}
    THEN <<cell[1]>> \o MarkerPart(Tail(cell))
    ELSE <<>>

\* the weight annotations of the two Markdown renderers
IsWeightAnnotation(text, w) ==
    \/ text = <<" ", "(">> \o FormatOneDecimal(w) \o <<"kg)">>
    \/ text = <<"(">> \o FormatOneDecimal(w) \o <<"kg)">>

\* C7: in the Markdown grid the markers of the cell of user u on day d are
\* C iff u has only a conversation record on d, M iff only a meal record,
\* CM iff both and nothing iff neither; the weight annotation of d follows
\* the markers iff u has a weight sample on d.
C7_GridCellMarkers ==
    markdown # NoMarkdown =>
        \A i \in 1..Len(roster), j \in 1..Len(markdown.days) :
            LET u     == roster[i]
                d     == markdown.days[j]
                cell  == markdown.grid[i].cells[j]
                marks == MarkerPart(cell)
                rest  == SubSeq(cell, Len(marks) + 1, Len(cell))
                conv  == d \in cheddar_dates_by_user[u]
                meal  == d \in meal_dates_by_user[u]
            IN  /\ marks = <<"C">> <=> (conv /\ ~meal)
                /\ marks = <<"M">> <=> (~conv /\ meal)
                /\ marks = <<"C", "M">> <=> (conv /\ meal)
                /\ marks = <<>> <=> (~conv /\ ~meal)
                /\ IF d \in DOMAIN weight_data_by_user[u]
                   THEN IsWeightAnnotation(rest, weight_data_by_user[u][d])
                   ELSE rest = <<>>

\* a grid of several days with a CM cell that carries a weight, a cell with
\* one marker and an empty cell
C7_Witness ==
    /\ markdown # NoMarkdown
    /\ Len(markdown.days) >= 2
    /\ \E i \in 1..Len(roster), j \in 1..Len(markdown.days) :
          LET cell == markdown.grid[i].cells[j] IN
          MarkerPart(cell) = <<"C", "M">> /\ Len(cell) > 2
    /\ \E i \in 1..Len(roster), j \in 1..Len(markdown.days) :
          markdown.grid[i].cells[j] = <<"M">>
    /\ \E i \in 1..Len(roster), j \in 1..Len(markdown.days) :
          markdown.grid[i].cells[j] = <<>>

\* the day k days before day
RECURSIVE DaysBefore(_, _)
DaysBefore(day, k) == IF k = 0 THEN day ELSE DaysBefore(SubDay(day), k - 1)

\* the recent-activity table of offset k
Snapshot(k) ==
    IF k = 0 THEN markdown.today
    ELSE IF k = 1 THEN markdown.yesterday
    ELSE markdown.two_days_ago

ActiveOn(u, day) ==
    day \in cheddar_dates_by_user[u] \/ day \in meal_dates_by_user[u]

\* C8: the snapshot of today - k lists exactly the roster users with a
\* conversation or meal record dated today - k, and holds one placeholder
\* row when there is none.
C8_RecentActivitySnapshots ==
    (markdown # NoMarkdown /\ prog = "FA") =>
        \A k \in 0..2 :
            LET day    == DaysBefore(markdown.now, k)
                listed == SelectSeq(roster, LAMBDA u : ActiveOn(u, day))
                table  == Snapshot(k)
            IN  IF listed = <<>>
                THEN Len(table) = 1 /\ table[1][1] = Dash
                ELSE /\ Len(table) = Len(listed)
                     /\ \A i \in 1..Len(table) :
                           table[i][1] = user_names[listed[i]]

\* a user whose only recent record is dated yesterday is listed under
\* yesterday, and the table of today holds the placeholder
C8_Witness ==
    /\ markdown # NoMarkdown /\ prog = "FA"
    /\ markdown.today = <<<<Dash, NoToday>>>>
    /\ \E u \in Emails(roster) :
          /\ ActiveOn(u, SubDay(markdown.now))
          /\ ~ActiveOn(u, markdown.now)
          /\ ~ActiveOn(u, SubDay(SubDay(markdown.now)))
          /\ \E i \in 1..Len(markdown.yesterday) :
                markdown.yesterday[i][1] = user_names[u]
    /\ markdown.two_days_ago # <<<<Dash, NoTwoDaysAgo>>>>

\* C9: the notification table lists exactly the roster users that are not
\* in the exclusion list and have no meal record dated yesterday, and holds
\* one placeholder row when there is none.
C9_NotificationEligibility ==
    (markdown # NoMarkdown /\ prog = "FA") =>
        LET yesterday == SubDay(markdown.now)
            eligible  ==
                SelectSeq(roster,
                          LAMBDA u : /\ u \notin Emails(exclude)
                                     /\ yesterday \notin meal_dates_by_user[u])
            table     == markdown.notification
        IN  IF eligible = <<>>
            THEN Len(table) = 1 /\ table[1][1] = Dash
            ELSE /\ Len(table) = Len(eligible)
                 /\ \A i \in 1..Len(table) :
                       /\ table[i][1] = user_names[eligible[i]]
                       /\ table[i][2] = BeforeFirstAt(eligible[i])

\* an excluded user without a meal record yesterday is left out while
\* another user is listed
C9_Witness ==
    /\ markdown # NoMarkdown /\ prog = "FA"
    /\ \E u \in Emails(exclude) \cap Emails(roster) :
          /\ SubDay(markdown.now) \notin meal_dates_by_user[u]
          /\ \A i \in 1..Len(markdown.notification) :
                markdown.notification[i][2] # BeforeFirstAt(u)
    /\ markdown.notification[1][1] # Dash

\* the table of a run in which nobody is eligible
C9_PlaceholderWitness ==
    /\ markdown # NoMarkdown /\ prog = "FA"
    /\ markdown.notification = <<<<Dash, Dash, Dash, NoNotification>>>>

\* the activity text of a spreadsheet cell: what precedes the weight
RECURSIVE ActivityText(_)
ActivityText(cell) ==
    IF cell # <<>> /\ cell[1] \notin {" ", "("}
    THEN <<cell[1]>> \o ActivityText(Tail(cell))
    ELSE <<>>

ConversationLabel == IF prog = "FA" THEN <<"daehwa">> ELSE <<"C">>
MealLabel         == IF prog = "FA" THEN <<"sikdan">> ELSE <<"M">>

\* C10: in the spreadsheet the activity text of a day with a conversation
\* and a meal record is the conversation label alone, with only a meal
\* record it is the meal label, with neither it is empty.
C10_SpreadsheetTieBreak ==
    excel # NoFile =>
        \A i \in 1..Len(roster), j \in 1..Len(excel.days) :
            LET u    == roster[i]
                d    == excel.days[j]
                text == ActivityText(excel.rows[i].cells[j])
                conv == d \in cheddar_dates_by_user[u]
                meal == d \in meal_dates_by_user[u]
            IN  /\ (conv /\ meal) => text = ConversationLabel
                /\ (~conv /\ meal) => text = MealLabel
                /\ (~conv /\ ~meal) => text = <<>>

\* the parenthesised one-decimal value of a weight, with or without unit
Parenthesized(w) ==
    { <<"(">> \o FormatOneDecimal(w) \o <<"kg)">>,
      <<"(">> \o FormatOneDecimal(w) \o <<")">> }

\* C11: in the spreadsheet the cell of a (user, day) with a weight sample
\* is its activity text followed by the parenthesised one-decimal value
\* when there is activity text, and exactly the parenthesised value, with
\* nothing before the opening parenthesis, when there is none.
C11_SpreadsheetWeightText ==
    excel # NoFile =>
        \A i \in 1..Len(roster), j \in 1..Len(excel.days) :
            LET u    == roster[i]
                d    == excel.days[j]
                cell == excel.rows[i].cells[j]
                text == ActivityText(cell)
                rest == SubSeq(cell, Len(text) + 1, Len(cell))
            IN  d \in DOMAIN weight_data_by_user[u] =>
                   LET value == Parenthesized(weight_data_by_user[u][d]) IN
                   IF text # <<>>
                   THEN \E v \in value : rest = v \/ rest = <<" ">> \o v
                   ELSE cell \in value

\* the Markdown report of the aggregates of this run when the clock shows
\* the same dates and the time of day t
RenderedAt(t) ==
    IF prog = "FA"
    THEN GenerateMarkdownTable(cheddar_dates_by_user, meal_dates_by_user,
                               weight_data_by_user, user_names,
                               registration_dates,
                               markdown.days[Len(markdown.days)],
                               [date |-> markdown.now, tod |-> t])
    ELSE RenderMarkdown(cheddar_dates_by_user, meal_dates_by_user,
                        weight_data_by_user, user_names, markdown.now)

\* C12: the Markdown text of a run is the text of any run on the same
\* store, roster and calendar date, whatever the time of day: rendering the
\* same aggregates at another time of day gives the same text.
C12_MarkdownDeterminism ==
    (markdown # NoMarkdown /\ markdown.days # <<>>) =>
        \A t \in TimesOfDay : RenderedAt(t) = markdown

\* the first day of the grid: fixed in FA, configured in CA
GridStart == IF prog = "FA" THEN StartDate ELSE start_date

\* the days around the sample start dates and clock readings
CalendarDays == {AddDays([year |-> 2025, month |-> 3, day |-> 25], k) :
                    k \in 0..16}

\* q holds the days first .. last, each once, in ascending order, and
\* nothing else
IsCalendar(q, first, last) ==
    /\ \A i \in 1..Len(q) : DateLE(first, q[i]) /\ DateLE(q[i], last)
    /\ \A d \in CalendarDays :
          (DateLE(first, d) /\ DateLE(d, last)) => \E i \in 1..Len(q) : q[i] = d
    /\ \A i, j \in 1..Len(q) : i < j => DateLT(q[i], q[j])
    /\ DateLT(last, first) => q = <<>>

\* C13: the days of the grid of the report, and of the columns of the
\* spreadsheet, are exactly the days from the start date to the date the
\* clock shows when the sequence is built, each once and ascending,
\* whatever the store holds; the sequence is empty when the start date is
\* after that date.
C13_CalendarSequence ==
    [][/\ markdown' # markdown =>
             IsCalendar(markdown'.days, GridStart, clock.date)
       /\ excel' # excel =>
             IsCalendar(excel'.days, GridStart, clock.date)]_vars

\* a report whose start date is after today: no day column
C13_Witness ==
    /\ markdown # NoMarkdown
    /\ DateLT(clock.date, GridStart)
    /\ markdown.days = <<>>
    /\ excel # NoFile
    /\ excel.days = <<>>

\* a report of several days, one of them without any record of any user
C13_RangeWitness ==
    /\ markdown # NoMarkdown
    /\ Len(markdown.days) >= 3
    /\ \E j \in 1..Len(markdown.days) :
          \A i \in 1..Len(roster) : markdown.grid[i].cells[j] = <<>>

\* C14: no artifact is written before the whole roster is aggregated, and
\* when the run has ended the Markdown file and the spreadsheet are both
\* written or both not written, also when a write failed.
C14_ArtifactsAllOrNothing ==
    /\ (readme # NoFile \/ excel # NoFile) => idx > Len(roster)
    /\ ExitStatus # Running => (readme # NoFile <=> excel # NoFile)

\* nothing was fetched from the store
NoFetch ==
    /\ pc \in {"start", "crashed", "returned"}
    /\ idx = 1 /\ step = "name"
    /\ faulted = {}
    /\ user_names = EmptyDict
    /\ registration_dates = EmptyDict
    /\ cheddar_dates_by_user = EmptyDict
    /\ meal_dates_by_user = EmptyDict
    /\ weight_data_by_user = EmptyDict

\* C15: with a missing or invalid credential file the program fetches
\* nothing, writes no artifact and ends with a non-zero exit status; the
\* exit status is 0 only when the run completed.
C15_CredentialFailureExit ==
    /\ credential # "valid" =>
          /\ NoFetch
          /\ readme = NoFile /\ excel = NoFile
          /\ ExitStatus \in {Running, 1}
    /\ ExitStatus = 0 => (pc = "done" /\ readme # NoFile /\ excel # NoFile)

\* a step that is a call of generate_markdown_table or of save_to_excel
RenderStep ==
    /\ prog = "FA"
    /\ \/ pc = "collect" /\ pc' = "save_md"
       \/ pc = "save_xlsx" /\ pc' # pc

\* C16: generate_markdown_table and save_to_excel leave their arguments as
\* they were: the conversation dates, the meal dates, the weights, the
\* names and the registration dates have the same keys and values after
\* the call, and no key is added for a user that was absent.
C16_RenderLeavesInputs ==
    [][RenderStep =>
          UNCHANGED <<cheddar_dates_by_user, meal_dates_by_user,
                      weight_data_by_user, user_names,
                      registration_dates>>]_vars

\* both artifacts of an FA run whose exclusion table shows a user that is
\* in none of the mappings
C16_Witness ==
    /\ prog = "FA"
    /\ markdown # NoMarkdown
    /\ excel # NoFile
    /\ \E i \in 1..Len(exclude) :
          /\ exclude[i] \notin DOMAIN user_names
          /\ exclude[i] \notin DOMAIN registration_dates
          /\ markdown.dropout[i] =
                <<LocalPart(exclude[i]), LocalPart(exclude[i]), EOPSEUM>>

\* what C17 says the registration column shows for user u: the date as
\* YYYY-MM-DD, and the placeholder of a missing meal date without one
RegistrationAsClaimed(u) ==
    IF u \in DOMAIN registration_dates /\ registration_dates[u] # None
    THEN IsoFormat(registration_dates[u])
    ELSE EOPSEUM

\* C17: in the notification table and in the exclusion table the
\* registration column of a user shows the registration date as
\* YYYY-MM-DD, and the placeholder of a missing latest meal date when the
\* aggregator stored null for the user.
C17_RegistrationPlaceholder ==
    (markdown # NoMarkdown /\ prog = "FA") =>
        LET yesterday == SubDay(markdown.now)
            eligible  ==
                SelectSeq(roster,
                          LAMBDA u : /\ u \notin Emails(exclude)
                                     /\ yesterday \notin meal_dates_by_user[u])
        IN  /\ \A i \in 1..Len(eligible) :
                  markdown.notification[i][3] =
                      RegistrationAsClaimed(eligible[i])
            /\ \A i \in 1..Len(exclude) :
                  markdown.dropout[i][3] = RegistrationAsClaimed(exclude[i])

\* a is b with some elements left out, the others in the order of b
RECURSIVE IsSubsequence(_, _)
IsSubsequence(a, b) ==
    IF a = <<>> THEN TRUE
    ELSE IF b = <<>> THEN FALSE
    ELSE IF a[1] = b[1] THEN IsSubsequence(Tail(a), Tail(b))
    ELSE IsSubsequence(a, Tail(b))

\* the names and the identifier parts of the roster, in roster order
RosterNames  == [i \in 1..Len(roster) |-> user_names[roster[i]]]
RosterLocals == [i \in 1..Len(roster) |-> BeforeFirstAt(roster[i])]

\* column k of the rows of a table, nothing for the placeholder row
Column(table, k) ==
    IF table[1][1] = Dash THEN <<>>
    ELSE [i \in 1..Len(table) |-> table[i][k]]

\* some roster user has a weight sample, so that the report holds
\* weight-history sections and not the placeholder line
HasWeightSections ==
    \E u \in Emails(roster) : weight_data_by_user[u] # EmptyDict

\* the dates of the rows of a weight-history section are strictly descending
Descending(rows) ==
    \A i, j \in 1..Len(rows) :
        i < j => DateLT(FromIsoFormat(rows[j][1]), FromIsoFormat(rows[i][1]))

\* C18: the grid, the most-recent summary and the spreadsheet list every
\* roster user in roster order; the weight-history sections, the three
\* snapshots and the notification table list their users in the relative
\* order of the roster; the exclusion table follows the exclusion list;
\* the rows of each weight history are in strictly descending date order.
C18_TableOrder ==
    /\ markdown # NoMarkdown =>
          [i \in 1..Len(markdown.grid) |-> markdown.grid[i].email]
              = RosterLocals
    /\ excel # NoFile =>
          [i \in 1..Len(excel.rows) |-> excel.rows[i].email] = RosterLocals
    /\ (markdown # NoMarkdown /\ prog = "FA") =>
          /\ HasWeightSections =>
                /\ IsSubsequence([i \in 1..Len(markdown.weights) |->
                                     markdown.weights[i].name], RosterNames)
                /\ \A i \in 1..Len(markdown.weights) :
                      Descending(markdown.weights[i].rows)
          /\ \A k \in 0..2 :
                IsSubsequence(Column(Snapshot(k), 1), RosterNames)
          /\ Column(markdown.latest, 1) = RosterNames
          /\ IsSubsequence(Column(markdown.notification, 2), RosterLocals)
          /\ exclude # <<>> =>
                Column(markdown.dropout, 2) =
                    [i \in 1..Len(exclude) |-> BeforeFirstAt(exclude[i])]

\* an FA report with a weight history of two days, two users in a snapshot
\* and in the notification table, and two excluded users, with the
\* spreadsheet written
C18_Witness ==
    /\ prog = "FA"
    /\ markdown # NoMarkdown
    /\ excel # NoFile
    /\ HasWeightSections
    /\ \E i \in 1..Len(markdown.weights) : Len(markdown.weights[i].rows) = 2
    /\ \E k \in 0..2 : Len(Column(Snapshot(k), 1)) = 2
    /\ Len(exclude) = 2
    /\ RosterNames[1] # RosterNames[2]

\* the last element of a non-empty sequence
Last(q) == q[Len(q)]

\* C19: the last day of the Markdown grid, the today of the snapshots and
\* of the notification check, and the last day column of the spreadsheet
\* of one run are the same date, also when midnight passes during the run.
C19_OneToday ==
    /\ (markdown # NoMarkdown /\ markdown.days # <<>>) =>
          Last(markdown.days) = markdown.now
    /\ (markdown # NoMarkdown /\ excel # NoFile /\ excel.days # <<>>) =>
          Last(excel.days) = markdown.now

\* C20: whenever _LazyFirebase._instance is not None the instance holds a
\* store client, so that reading db succeeds, and no call of
\* _LazyFirebase(...) returns an instance without a client, also after a
\* call that raised.
C20_SingletonHasClient ==
    /\ firebase.instance # None => ~DbRaises(firebase.instance)
    /\ \A k \in 1..Len(firebase.calls) :
          ~firebase.calls[k].raised => ~DbRaises(firebase.calls[k].value)


-----------------------------------------------------------------------------
(* Claims about cheddar_4week_weight.py *)

\* The rows of the sheet that hold a valid member.
ValidRows ==
    {i \in 1..Len(members.data_rows) :
        IsValidMember(members.data_rows[i].name)}

\* The date columns in which the row holds a weight record.
WeightColumns(row) ==
    {c \in 1..Len(row.cells) :
        ~IsNa(row.cells[c]) /\ IsWeightRecord(row.cells[c])}

\* The date of a date column is one of the last 14 days as the day of the
\* run counts them: the header is a date, and it is not earlier than the
\* day 14 days before today.
DatedInLast14Days(c) ==
    LET header == ParseDateString(members.date_row[c], members.today.date.year)
    IN  /\ header # None
        /\ DateLE(SubDays(members.today.date, 14), header.date)

InList(list, name) == \E k \in 1..Len(list) : list[k] = name

ListsReturned == members.phase = "returned" /\ members.result # None

\* C21: when extract_member_lists returns its lists, every valid member
\* whose row has no weight record in any date column is in never_weight,
\* and every valid member with a weight record but none in a column dated
\* within the last 14 days is in no_weight_2weeks, whether or not the
\* signup date of the member parses.
C21_WeightListsComplete ==
    ListsReturned =>
        \A i \in ValidRows :
            LET row == members.data_rows[i]
            IN  /\ WeightColumns(row) = {}
                    => InList(members.result.never_weight, row.name)
                /\ (/\ WeightColumns(row) # {}
                    /\ \A c \in WeightColumns(row) : ~DatedInLast14Days(c))
                    => InList(members.result.no_weight_2weeks, row.name)


\* How many entries of list are name.
Count(list, name) == Cardinality({k \in 1..Len(list) : list[k] = name})

\* The valid members that the loop has gone through.
AnalysedRows == {i \in ValidRows : i < members.idx}

\* C22: at every point of extract_member_lists after the sheet is read, a
\* name stands in never_weight and no_weight_2weeks together no more often
\* than there are analysed members of that name, so that no member is in
\* both lists or twice in one; and a weight status never has
\* has_recent_weight without has_any_weight.
C22_WeightListsExclusive ==
    members.phase \in {"loop", "returned"} =>
        /\ \A i \in ValidRows :
              LET name == members.data_rows[i].name
              IN  Count(members.never_weight, name)
                    + Count(members.no_weight_2weeks, name)
                  <= Cardinality({j \in AnalysedRows :
                                     members.data_rows[j].name = name})
        /\ \A k \in 1..Len(members.never_weight) :
              \E i \in AnalysedRows :
                 members.data_rows[i].name = members.never_weight[k]
        /\ \A k \in 1..Len(members.no_weight_2weeks) :
              \E i \in AnalysedRows :
                 members.data_rows[i].name = members.no_weight_2weeks[k]
        /\ members.weight_status # None =>
              (members.weight_status.has_recent_weight
                 => members.weight_status.has_any_weight)

\* Two members were analysed, one went to never_weight, the other one to
\* no_weight_2weeks.
C22_Witness ==
    /\ ListsReturned
    /\ Len(members.data_rows) = 2
    /\ Len(members.result.never_weight) = 1
    /\ Len(members.result.no_weight_2weeks) = 1
    /\ members.weight_status # None


\* The number of days from d through the Sunday of the Monday-to-Sunday
\* week of d, both ends counted.
DaysThroughSunday(d) ==
    CHOOSE n \in 1..7 : Weekday(AddDays(d, n - 1)) = 6

\* C23: for a signup date on any weekday calculate_onboarding_days returns
\* the number of days from the signup date through the Sunday of the same
\* Monday-to-Sunday week, both ends counted, and the result is between 1
\* and 7.
C23_OnboardingThroughSunday ==
    members.phase = "onboarded" =>
        /\ members.onboarding_days = DaysThroughSunday(members.signup_date)
        /\ 1 <= members.onboarding_days
        /\ members.onboarding_days <= 7

====
